---- MODULE Spec2Model ----
(***************************************************************************)
(* Position accounting of the stock performance dashboard:                 *)
(*   - calculate_fifo_avg_price  (portfolio_calculator.py,                 *)
(*                                generate_snapshots.py)                   *)
(*   - generate_snapshot_for_year (generate_snapshots.py)                  *)
(*   - apply_incremental_trades  (portfolio_calculator.py)                 *)
(*                                                                         *)
(* Numbers.  Quantities are integers counting hundredths of a share, unit  *)
(* prices and exchange rates are integers, so every product                *)
(* Qty * Price * Exchange_Rate is an integer counting hundredths of a      *)
(* currency unit.  Values the code obtains by a division (average prices)  *)
(* are exact rationals [n, d]; the two-decimal and six-decimal rounding of *)
(* the snapshot writer is modelled on them.  Dates are integers YYYYMMDD.  *)
(***************************************************************************)
EXTENDS Integers, Sequences, FiniteSets, Bags, TLC

-----------------------------------------------------------------------------
(* Bounds of the model                                                     *)

MaxTrades == 3

Qtys == {1, 2}
Dates == {20230310, 20231231, 20240115}
Years == {2023, 2024}
\* the instruments, in the order sort_values('Ticker') gives them
TickerOrder == <<"AAPL", "INFY">>
Tickers == {TickerOrder[i] : i \in DOMAIN TickerOrder}

-----------------------------------------------------------------------------
(* Exact rationals                                                         *)

Abs(x) == IF x < 0 THEN -x ELSE x

RECURSIVE GCD(_, _)
GCD(a, b) == IF b = 0 THEN a ELSE GCD(b, a % b)

Rat(n, d) ==
    LET g == GCD(Abs(n), d)
    IN  IF n = 0 THEN [n |-> 0, d |-> 1] ELSE [n |-> n \div g, d |-> d \div g]

RInt(k) == [n |-> k, d |-> 1]

RAdd(a, b) ==
    LET g == GCD(a.d, b.d)
    IN  Rat(a.n * (b.d \div g) + b.n * (a.d \div g), (a.d \div g) * b.d)

RNeg(a) == [n |-> -a.n, d |-> a.d]

RSub(a, b) == RAdd(a, RNeg(b))

\* a * k for an integer k
RScale(a, k) ==
    LET g == GCD(Abs(k), a.d)
    IN  IF k = 0 THEN RInt(0) ELSE Rat(a.n * (k \div g), a.d \div g)

\* a / k for an integer k > 0
RDiv(a, k) ==
    LET g == GCD(Abs(a.n), k)
    IN  IF a.n = 0 THEN RInt(0) ELSE Rat(a.n \div g, a.d * (k \div g))

RLess(a, b) == RSub(a, b).n < 0

RPos(a) == a.n > 0

\* the integer nearest to n / d (d > 0), ties to the even neighbour
RoundDiv(n, d) ==
    LET q == n \div d
        r == n % d
    IN  IF 2 * r < d THEN q
        ELSE IF 2 * r > d THEN q + 1
        ELSE IF q % 2 = 0 THEN q ELSE q + 1

\* a rounded to a multiple of 1 / scale
RRound(a, scale) ==
    LET q == a.n \div a.d
        r == a.n % a.d
    IN  Rat(q * scale + RoundDiv(r * scale, a.d), scale)

-----------------------------------------------------------------------------
(* The trade ledger (archivesCSV/tradebook.csv)                            *)

Currency(ticker) == IF ticker = "AAPL" THEN "USD" ELSE "INR"

\* The Exchange_Rate column: 1 for INR rows, and for the other rows the rate
\* of the trade date that the ingestion stored with the row.
ExchangeRate(currency, date) ==
    IF currency = "INR" THEN 1 ELSE 2 + ((date \div 100) % 2)

Row(date, ticker, type, qty, price) ==
    [Date |-> date, Ticker |-> ticker, Type |-> type, Qty |-> qty,
     Price |-> price, Currency |-> Currency(ticker),
     Exchange_Rate |-> ExchangeRate(Currency(ticker), date)]

\* The Price column: the ledgers of the model carry one buying and one
\* selling price per trade date.
PriceOn(date, type) ==
    (IF date < 20231231 THEN 1 ELSE IF date < 20240101 THEN 3 ELSE 2)
    + (IF type = "SELL" THEN 1 ELSE 0)

Rows(tickers, qtys) ==
    {Row(d, t, ty, q, PriceOn(d, ty)) :
        d \in Dates, t \in tickers, ty \in {"BUY", "SELL"}, q \in qtys}

\* every ledger of at most n rows of the set rows, in every row order
Ledgers(rows, n) == UNION {[1..k -> rows] : k \in 0..n}

\* BUY 10 @ 100 on 2023-01-01, BUY 10 @ 120 on 2023-02-01 and
\* SELL 15 @ 150 on 2023-03-01 of an instrument in the base currency
ExampleLedger ==
    <<Row(20230101, "INFY", "BUY", 1000, 100),
      Row(20230201, "INFY", "BUY", 1000, 120),
      Row(20230301, "INFY", "SELL", 1500, 150)>>

-----------------------------------------------------------------------------
(* Dataframe helpers                                                       *)

Min(a, b) == IF a < b THEN a ELSE b

Range(s) == {s[i] : i \in DOMAIN s}

RECURSIVE SumQty(_)
SumQty(rows) == IF rows = <<>> THEN 0 ELSE Head(rows).Qty + SumQty(Tail(rows))

IsBuy(r) == r.Type = "BUY"
IsSell(r) == r.Type = "SELL"

\* df[df['Ticker'] == ticker]
TickerTrades(df, ticker) == SelectSeq(df, LAMBDA r : r.Ticker = ticker)

\* df['Ticker'].unique(): the tickers in order of first appearance
RECURSIVE Unique(_)
Unique(df) ==
    IF df = <<>> THEN <<>>
    ELSE LET init == Unique(SubSeq(df, 1, Len(df) - 1))
             t == df[Len(df)].Ticker
         IN  IF t \in Range(init) THEN init ELSE Append(init, t)

Type_Sort(r) == IF r.Type = "BUY" THEN 0 ELSE 1

\* the sort key of a row under by = "Date", by = "DateType" (the columns
\* ['Date', 'Type_Sort']) or by = "Ticker"
SortKey(r, by) ==
    IF by = "Date" THEN r.Date
    ELSE IF by = "DateType" THEN 2 * r.Date + Type_Sort(r)
    ELSE CHOOSE k \in DOMAIN TickerOrder : TickerOrder[k] = r.Ticker

\* r inserted into the sorted frame s behind every row whose key is not greater
RECURSIVE InsertRow(_, _, _)
InsertRow(s, r, by) ==
    IF s = <<>> THEN <<r>>
    ELSE IF SortKey(s[Len(s)], by) <= SortKey(r, by) THEN Append(s, r)
    ELSE Append(InsertRow(SubSeq(s, 1, Len(s) - 1), r, by), s[Len(s)])

\* df.sort_values(by): rows with equal keys keep the order they have in df
RECURSIVE SortValues(_, _)
SortValues(df, by) ==
    IF df = <<>> THEN <<>>
    ELSE InsertRow(SortValues(SubSeq(df, 1, Len(df) - 1), by), df[Len(df)], by)

\* df.sort_values('Date')
SortByDate(df) == SortValues(df, "Date")

\* df.sort_values(['Date', 'Type_Sort'])
SortByDateType(df) == SortValues(df, "DateType")

-----------------------------------------------------------------------------
(* FIFO matching                                                           *)

\* a lot {'qty': ..., 'price': ...}
Lot(qty, price) == [qty |-> qty, price |-> price]

\* ReduceLots without "sell_qty_remaining -= qty_to_reduce"
RECURSIVE ReduceLots_NoDecrement(_, _, _)
ReduceLots_NoDecrement(lots, k, q) ==
    IF k > Len(lots) \/ q <= 0 THEN lots
    ELSE IF lots[k].qty > 0
         THEN LET qty_to_reduce == IF lots[k].qty < q THEN lots[k].qty ELSE q
              IN  ReduceLots_NoDecrement([lots EXCEPT ![k].qty = @ - qty_to_reduce],
                                         k + 1, q)
         ELSE ReduceLots_NoDecrement(lots, k + 1, q)

\* The loop "for lot in buy_lots" of calculate_fifo_avg_price, from lot k on,
\* with sell_qty_remaining = q.
RECURSIVE ReduceLots(_, _, _)
ReduceLots(lots, k, q) ==
    IF k > Len(lots) \/ q <= 0 THEN lots
    ELSE IF lots[k].qty > 0
         THEN LET qty_to_reduce == Min(lots[k].qty, q)
              IN  ReduceLots([lots EXCEPT ![k].qty = @ - qty_to_reduce],
                             k + 1, q - qty_to_reduce)
         ELSE ReduceLots(lots, k + 1, q)

\* MatchLots over reversed(buy_lots): the newest lot is matched first
RECURSIVE MatchLots_Lifo(_, _, _, _, _, _)
MatchLots_Lifo(lots, k, q, sell_price, fx_rate, profit) ==
    IF k > Len(lots) \/ q <= 0 THEN [lots |-> lots, profit |-> profit]
    ELSE LET at == Len(lots) + 1 - k
         IN  IF lots[at].qty > 0
             THEN LET qty_to_match == IF lots[at].qty < q THEN lots[at].qty ELSE q
                      sell_revenue == RInt(qty_to_match * sell_price * fx_rate)
                      sell_cost == RScale(lots[at].price, qty_to_match * fx_rate)
                  IN  MatchLots_Lifo([lots EXCEPT ![at].qty = @ - qty_to_match],
                                     k + 1, q - qty_to_match, sell_price, fx_rate,
                                     RAdd(profit, RSub(sell_revenue, sell_cost)))
             ELSE MatchLots_Lifo(lots, k + 1, q, sell_price, fx_rate, profit)

\* The loop "for lot in buy_lots" of the realized-profit passes, from lot k
\* on, with sell_qty_remaining = q: the lots it leaves and the profit it has
\* added to the profit so far.
RECURSIVE MatchLots(_, _, _, _, _, _)
MatchLots(lots, k, q, sell_price, fx_rate, profit) ==
    IF k > Len(lots) \/ q <= 0 THEN [lots |-> lots, profit |-> profit]
    ELSE IF lots[k].qty > 0
         THEN LET qty_to_match == Min(lots[k].qty, q)
                  sell_revenue == RInt(qty_to_match * sell_price * fx_rate)
                  sell_cost == RScale(lots[k].price, qty_to_match * fx_rate)
              IN  MatchLots([lots EXCEPT ![k].qty = @ - qty_to_match],
                            k + 1, q - qty_to_match, sell_price, fx_rate,
                            RAdd(profit, RSub(sell_revenue, sell_cost)))
         ELSE MatchLots(lots, k + 1, q, sell_price, fx_rate, profit)

RECURSIVE LotsQty(_)
LotsQty(lots) ==
    IF lots = <<>> THEN 0
    ELSE (IF Head(lots).qty > 0 THEN Head(lots).qty ELSE 0) + LotsQty(Tail(lots))

RECURSIVE LotsValue(_)
LotsValue(lots) ==
    IF lots = <<>> THEN RInt(0)
    ELSE RAdd(IF Head(lots).qty > 0 THEN RScale(Head(lots).price, Head(lots).qty)
              ELSE RInt(0),
              LotsValue(Tail(lots)))

\* WeightedAvg as the plain mean of the prices of the open lots
WeightedAvg_Unweighted(lots) ==
    LET open == SelectSeq(lots, LAMBDA l : l.qty > 0)
        prices == LotsValue([i \in 1..Len(open) |-> [qty |-> 1, price |-> open[i].price]])
    IN  IF Len(open) > 0 THEN RDiv(prices, Len(open)) ELSE RInt(0)

\* "Calculate weighted average of remaining lots"
WeightedAvg(lots) ==
    LET total_qty == LotsQty(lots)
        total_value == LotsValue(lots)
    IN  IF total_qty > 0 THEN RDiv(total_value, total_qty) ELSE RInt(0)

\* ApplyTrade with a BUY that refills the last lot once it is exhausted
ApplyTrade_Refill(lots, row) ==
    IF row.Type = "BUY"
    THEN IF lots # <<>> /\ lots[Len(lots)].qty = 0
         THEN [lots EXCEPT ![Len(lots)] = Lot(row.Qty, RInt(row.Price))]
         ELSE Append(lots, Lot(row.Qty, RInt(row.Price)))
    ELSE IF row.Type = "SELL" THEN ReduceLots(lots, 1, row.Qty)
    ELSE lots

\* One iteration of "for _, row in ticker_trades.iterrows()" of
\* calculate_fifo_avg_price.
ApplyTrade(lots, row) ==
    IF row.Type = "BUY" THEN Append(lots, Lot(row.Qty, RInt(row.Price)))
    ELSE IF row.Type = "SELL" THEN ReduceLots(lots, 1, row.Qty)
    ELSE lots

RECURSIVE ApplyTrades(_, _)
ApplyTrades(lots, rows) ==
    IF rows = <<>> THEN lots
    ELSE ApplyTrades(ApplyTrade(lots, Head(rows)), Tail(rows))

\* calculate_fifo_avg_price(ticker_trades): the lot queue it builds
FifoLots(ticker_trades) == ApplyTrades(<<>>, SortByDateType(ticker_trades))

calculate_fifo_avg_price(ticker_trades) == WeightedAvg(FifoLots(ticker_trades))

-----------------------------------------------------------------------------
(* Snapshot Builder: generate_snapshot_for_year                            *)

\* an artifact that does not exist, and the None the builder returns
NoFile == [exists |-> FALSE]

\* pd.Timestamp(f'{year}-12-31 23:59:59'): a row's date is at or before it
\* exactly when it is at or before December 31st of the year
Cutoff(year) == year * 10000 + 1231

\* trade['Date'].strftime('%Y-%m-%d')
Strftime(date) ==
    [Y |-> date \div 10000, M |-> (date \div 100) % 100, D |-> date % 100]

\* datetime.strptime(d, '%Y-%m-%d').date()
Strptime(str) == str.Y * 10000 + str.M * 100 + str.D

\* current_qty < 0.001, for a quantity counted in hundredths of a share
BelowDust(current_qty) == current_qty * 10 < 1

\* df[df['Date'] <= cutoff_date]
FilterUpTo(df, year) == SelectSeq(df, LAMBDA r : r.Date <= Cutoff(year))

\* "Add this ticker's cash flows to the total": one signed amount per row
RECURSIVE TickerCashFlows(_)
TickerCashFlows(rows) ==
    IF rows = <<>> THEN <<>>
    ELSE LET trade == Head(rows)
             amount == trade.Qty * trade.Price * trade.Exchange_Rate
         IN  <<[cash_flow |-> IF trade.Type = "BUY" THEN -amount ELSE amount,
                date |-> Strftime(trade.Date)]>>
             \o TickerCashFlows(Tail(rows))

\* "Track buy lots for FIFO matching": one lot per BUY row of sorted_trades
RECURSIVE LoadBuyLots(_)
LoadBuyLots(rows) ==
    IF rows = <<>> THEN <<>>
    ELSE (IF Head(rows).Type = "BUY"
          THEN <<Lot(Head(rows).Qty, RInt(Head(rows).Price))>> ELSE <<>>)
         \o LoadBuyLots(Tail(rows))

\* "Match sells against buys using FIFO": every SELL row of sorted_trades in
\* turn against buy_lots, at the exchange rate fx_rate
RECURSIVE MatchSells(_, _, _)
MatchSells(state, rows, fx_rate) ==
    IF rows = <<>> THEN state
    ELSE IF Head(rows).Type = "SELL"
         THEN MatchSells(MatchLots(state.lots, 1, Head(rows).Qty, Head(rows).Price,
                                   fx_rate, state.profit),
                         Tail(rows), fx_rate)
         ELSE MatchSells(state, Tail(rows), fx_rate)

\* The realized-profit pass over one ticker's trades: the lots it leaves and
\* the profit it reports.
RealizedPass(ticker_trades, fx_rate) ==
    LET buys_only == SelectSeq(ticker_trades, IsBuy)
        sells_only == SelectSeq(ticker_trades, IsSell)
        sorted_trades == SortByDate(ticker_trades)
    IN  IF sells_only # <<>> /\ buys_only # <<>>
        THEN MatchSells([lots |-> LoadBuyLots(sorted_trades), profit |-> RInt(0)],
                        sorted_trades, fx_rate)
        ELSE [lots |-> <<>>, profit |-> RInt(0)]

\* the fx_rate the Snapshot Builder uses for a ticker: the one of its last row
SnapshotFxRate(ticker_trades) == ticker_trades[Len(ticker_trades)].Exchange_Rate

\* current_qty = buy_qty - sell_qty
CurrentQty(ticker_trades) ==
    SumQty(SelectSeq(ticker_trades, IsBuy)) - SumQty(SelectSeq(ticker_trades, IsSell))

\* The entry of snapshot_data for one ticker that is held at the cutoff.
SnapshotRow(ticker, ticker_trades) ==
    LET current_qty == CurrentQty(ticker_trades)
        fx_rate == SnapshotFxRate(ticker_trades)
        avg_buy_price == calculate_fifo_avg_price(ticker_trades)
        invested_amt_inr == RScale(avg_buy_price, current_qty * fx_rate)
        realized_profit == RealizedPass(ticker_trades, fx_rate).profit
    IN  [Ticker |-> ticker,
         Qty |-> current_qty,
         Avg_Buy_Price |-> RRound(avg_buy_price, 1000000),
         Total_Invested_INR |-> RRound(invested_amt_inr, 1),
         Realized_Profit_INR |-> RRound(realized_profit, 1),
         Currency |-> ticker_trades[Len(ticker_trades)].Currency,
         Exchange_Rate |-> fx_rate]

\* SnapshotLoop with the cash flows collected behind the "continue" that
\* skips the tickers without holdings
RECURSIVE SnapshotLoop_HeldOnly(_, _, _)
SnapshotLoop_HeldOnly(df_filtered, ticker_list, acc) ==
    IF ticker_list = <<>> THEN acc
    ELSE LET ticker == Head(ticker_list)
             ticker_trades == TickerTrades(df_filtered, ticker)
         IN  SnapshotLoop_HeldOnly(df_filtered, Tail(ticker_list),
                 IF BelowDust(CurrentQty(ticker_trades)) THEN acc
                 ELSE [snapshot_data |->
                           Append(acc.snapshot_data, SnapshotRow(ticker, ticker_trades)),
                       all_cash_flows |->
                           acc.all_cash_flows \o TickerCashFlows(ticker_trades)])

\* The loop "for ticker in ticker_list": what it appends to snapshot_data
\* and to the cash flows collected so far
RECURSIVE SnapshotLoop(_, _, _)
SnapshotLoop(df_filtered, ticker_list, acc) ==
    IF ticker_list = <<>> THEN acc
    ELSE LET ticker == Head(ticker_list)
             ticker_trades == TickerTrades(df_filtered, ticker)
         IN  SnapshotLoop(df_filtered, Tail(ticker_list),
                 [snapshot_data |->
                      IF BelowDust(CurrentQty(ticker_trades)) THEN acc.snapshot_data
                      ELSE Append(acc.snapshot_data, SnapshotRow(ticker, ticker_trades)),
                  all_cash_flows |->
                      acc.all_cash_flows \o TickerCashFlows(ticker_trades)])

\* snapshot_df.sort_values('Ticker')
SortByTicker(snapshot_data) == SortValues(snapshot_data, "Ticker")

\* generate_snapshot_for_year(df, year): the two artifacts it writes, or
\* NoFile when it returns None
generate_snapshot_for_year(df, year) ==
    LET df_filtered == FilterUpTo(df, year)
        loop == SnapshotLoop(df_filtered, Unique(df_filtered),
                            [snapshot_data |-> <<>>, all_cash_flows |-> <<>>])
    IN  IF df_filtered = <<>> \/ loop.snapshot_data = <<>> THEN NoFile
        ELSE [exists |-> TRUE,
              holdings |-> [exists |-> TRUE, rows |-> SortByTicker(loop.snapshot_data)],
              cashflows |-> [exists |-> TRUE,
                             year |-> year,
                             cash_flows |-> [i \in 1..Len(loop.all_cash_flows) |->
                                                loop.all_cash_flows[i].cash_flow],
                             cash_flow_dates |-> [i \in 1..Len(loop.all_cash_flows) |->
                                                     loop.all_cash_flows[i].date],
                             trade_count |-> Len(df_filtered)]]

-----------------------------------------------------------------------------
(* Incremental Position Resolver: apply_incremental_trades                 *)

\* SeedHolding that keeps the snapshot figures and starts without a lot
SeedHolding_NoLot(row) ==
    [qty |-> row.Qty,
     avg_price |-> row.Avg_Buy_Price,
     invested_inr |-> row.Total_Invested_INR,
     realized_profit |-> row.Realized_Profit_INR,
     currency |-> row.Currency,
     fx_rate |-> row.Exchange_Rate,
     buy_lots |-> <<>>]

\* "Start with snapshot holdings": the holding of one row of snapshot_df
SeedHolding(row) ==
    [qty |-> row.Qty,
     avg_price |-> row.Avg_Buy_Price,
     invested_inr |-> row.Total_Invested_INR,
     realized_profit |-> row.Realized_Profit_INR,
     currency |-> row.Currency,
     fx_rate |-> row.Exchange_Rate,
     buy_lots |-> <<Lot(row.Qty, row.Avg_Buy_Price)>>]

\* "Initialize if new ticker"
NewHolding(first_trade) ==
    [qty |-> 0,
     avg_price |-> RInt(0),
     invested_inr |-> RInt(0),
     realized_profit |-> RInt(0),
     currency |-> first_trade.Currency,
     fx_rate |-> first_trade.Exchange_Rate,
     buy_lots |-> <<>>]

\* "Process each trade": one iteration of the loop over ticker_trades
ResolverApply(h, trade) ==
    IF trade.Type = "BUY"
    THEN [h EXCEPT !.buy_lots = Append(@, Lot(trade.Qty, RInt(trade.Price))),
                   !.qty = @ + trade.Qty]
    ELSE IF trade.Type = "SELL"
    THEN LET m == MatchLots(h.buy_lots, 1, trade.Qty, trade.Price, trade.Exchange_Rate,
                            h.realized_profit)
         IN  [h EXCEPT !.buy_lots = m.lots,
                       !.realized_profit = m.profit,
                       !.qty = @ - trade.Qty]
    ELSE h

\* "Recalculate average price from remaining lots"
ResolverRecalc(h) ==
    LET total_qty == LotsQty(h.buy_lots)
        total_value == LotsValue(h.buy_lots)
    IN  IF total_qty > 0
        THEN [h EXCEPT !.avg_price = RDiv(total_value, total_qty),
                       !.invested_inr = RScale(total_value, h.fx_rate)]
        ELSE [h EXCEPT !.avg_price = RInt(0), !.invested_inr = RInt(0)]

-----------------------------------------------------------------------------
(* Valuation Aggregator: calculate_detailed_portfolio and                  *)
(* calculate_portfolio_summary.  The company names, the previous-close     *)
(* figures (daily change) and the percentages of the result are left out.  *)

\* date.today(): a day after every trade of the ledger
Today == 20240630

\* the outcomes of one call xirr(cash_flow_dates, cash_flows) of pyxirr: it
\* raises, returns None, or returns a rate
XirrOutcomes == {"raise", "none", "rate"}

\* portfolio_xirr * 100 for the rate pyxirr returns when it returns one
XirrPercentage == 12

\* float('nan')
NaN == [n |-> 0, d |-> 0]

\* what get_market_data can return: a price for some of the tickers
MarketData == UNION {[held -> {2}] : held \in SUBSET Tickers}

\* current_qty >= 0.02, for a quantity counted in hundredths of a share
HeldNow(current_qty) == current_qty >= 2

\* get_currently_held_tickers(df)
get_currently_held_tickers(df) ==
    SelectSeq(Unique(df), LAMBDA t : HeldNow(CurrentQty(TickerTrades(df, t))))

\* fx_rate = ticker_trades['Exchange_Rate'].iloc[0]
FirstFxRate(ticker_trades) == ticker_trades[1].Exchange_Rate

\* the cash flows of the rows of a ticker, in row order, all at fx_rate
RowCashFlows(rows, fx_rate) ==
    [i \in DOMAIN rows |->
        [cash_flow |-> IF rows[i].Type = "BUY"
                       THEN 0 - rows[i].Qty * rows[i].Price * fx_rate
                       ELSE rows[i].Qty * rows[i].Price * fx_rate,
         date |-> rows[i].Date]]

\* "Add to cash flows": the BUY rows of a ticker, then its SELL rows
SideCashFlows(ticker_trades, fx_rate) ==
    RowCashFlows(SelectSeq(ticker_trades, IsBuy), fx_rate)
        \o RowCashFlows(SelectSeq(ticker_trades, IsSell), fx_rate)

\* the cash flows of every ticker of df, each ticker at its first rate
RECURSIVE TradebookCashFlows(_, _)
TradebookCashFlows(df, ticker_list) ==
    IF ticker_list = <<>> THEN <<>>
    ELSE LET ticker_trades == TickerTrades(df, Head(ticker_list))
         IN  RowCashFlows(ticker_trades, FirstFxRate(ticker_trades))
                 \o TradebookCashFlows(df, Tail(ticker_list))

\* holdings[ticker] of the legacy calculation
LegacyHolding(ticker_trades) ==
    LET current_qty == CurrentQty(ticker_trades)
        fx_rate == FirstFxRate(ticker_trades)
        avg_buy_price == calculate_fifo_avg_price(ticker_trades)
    IN  [qty |-> current_qty,
         avg_price |-> avg_buy_price,
         invested_inr |-> RScale(avg_buy_price, current_qty * fx_rate),
         realized_profit |-> RealizedPass(ticker_trades, fx_rate).profit,
         currency |-> ticker_trades[1].Currency,
         fx_rate |-> fx_rate]

\* "Legacy calculation: process full tradebook": the loop over ticker_list
RECURSIVE LegacyLoop(_, _, _)
LegacyLoop(calc_df, ticker_list, acc) ==
    IF ticker_list = <<>> THEN acc
    ELSE LET ticker == Head(ticker_list)
             ticker_trades == TickerTrades(calc_df, ticker)
         IN  LegacyLoop(calc_df, Tail(ticker_list),
                 IF ~HeldNow(CurrentQty(ticker_trades)) THEN acc
                 ELSE LET h == LegacyHolding(ticker_trades)
                      IN  [holdings |-> Append(acc.holdings, [ticker |-> ticker, data |-> h]),
                           cash_flows |-> acc.cash_flows
                               \o SideCashFlows(ticker_trades, FirstFxRate(ticker_trades)),
                           total_realized_profit |->
                               RAdd(acc.total_realized_profit, h.realized_profit)])

\* the trades of one ticker applied to its holding
RECURSIVE ResolverApplyAll(_, _)
ResolverApplyAll(h, trades) ==
    IF trades = <<>> THEN h
    ELSE ResolverApplyAll(ResolverApply(h, Head(trades)), Tail(trades))

\* "Apply incremental trades": the loop over the tickers of incremental_df
RECURSIVE IncrementalLoop(_, _, _)
IncrementalLoop(incremental_df, ticker_list, holdings) ==
    IF ticker_list = <<>> THEN holdings
    ELSE LET ticker == Head(ticker_list)
             ticker_trades == SortByDate(TickerTrades(incremental_df, ticker))
             known == {i \in DOMAIN holdings : holdings[i].ticker = ticker}
             start == IF known # {} THEN holdings[CHOOSE i \in known : TRUE].data
                      ELSE NewHolding(ticker_trades[1])
             data == ResolverRecalc(ResolverApplyAll(start, ticker_trades))
         IN  IncrementalLoop(incremental_df, Tail(ticker_list),
                 IF known # {}
                 THEN [i \in DOMAIN holdings |->
                          IF i \in known THEN [ticker |-> ticker, data |-> data]
                          ELSE holdings[i]]
                 ELSE Append(holdings, [ticker |-> ticker, data |-> data]))

\* apply_incremental_trades(snapshot_df, incremental_df): the holdings
\* dictionary, in the order of its keys
apply_incremental_trades(snapshot_df, incremental_df) ==
    IncrementalLoop(incremental_df, Unique(incremental_df),
                    [i \in DOMAIN snapshot_df |->
                        [ticker |-> snapshot_df[i].Ticker,
                         data |-> SeedHolding(snapshot_df[i])]])

\* the holdings whose quantity is at least 0.02, in the order of the keys
HeldOf(holdings) ==
    LET held == SelectSeq(holdings, LAMBDA e : HeldNow(e.data.qty))
    IN  [i \in DOMAIN held |-> held[i].ticker]

RECURSIVE SumRealized(_)
SumRealized(holdings) ==
    IF holdings = <<>> THEN RInt(0)
    ELSE RAdd(Head(holdings).data.realized_profit, SumRealized(Tail(holdings)))

\* no summary_metrics: the None of the early returns
NoMetrics == [exists |-> FALSE]

\* "for ticker in currently_held_tickers": the totals and the rows it builds.
\* round(current_qty, 2) keeps a quantity counted in hundredths as it is.
RECURSIVE PortfolioLoop(_, _, _, _)
PortfolioLoop(holdings, held, market_data, acc) ==
    IF held = <<>> THEN acc
    ELSE LET ticker == Head(held)
             known == {i \in DOMAIN holdings : holdings[i].ticker = ticker}
             h == holdings[CHOOSE i \in known : TRUE].data
             invested_amt == RScale(h.avg_price, h.qty * h.fx_rate)
             current_amt == h.qty * market_data[ticker] * h.fx_rate
         IN  PortfolioLoop(holdings, Tail(held), market_data,
                 IF known = {} THEN acc
                 ELSE IF ticker \notin DOMAIN market_data
                 THEN [acc EXCEPT
                          !.total_invested_inr = RAdd(@, invested_amt),
                          !.portfolio_rows = Append(@,
                              [Ticker |-> ticker,
                               Qty |-> h.qty,
                               Avg_Buy_Price |-> RRound(h.avg_price, 100),
                               Current_Price |-> NaN,
                               Currency |-> h.currency,
                               Invested_Value_INR |-> RRound(invested_amt, 1),
                               Current_Value_INR |-> NaN,
                               PL_INR |-> NaN])]
                 ELSE [acc EXCEPT
                          !.total_invested_inr = RAdd(@, invested_amt),
                          !.holdings_count = @ + 1,
                          !.current_value_inr = @ + current_amt,
                          !.portfolio_rows = Append(@,
                              [Ticker |-> ticker,
                               Qty |-> h.qty,
                               Avg_Buy_Price |-> RRound(h.avg_price, 100),
                               Current_Price |-> RInt(market_data[ticker]),
                               Currency |-> h.currency,
                               Invested_Value_INR |-> RRound(invested_amt, 1),
                               Current_Value_INR |-> RInt(current_amt),
                               PL_INR |-> RRound(RSub(RInt(current_amt), invested_amt), 1)])])

\* "Add current portfolio value to cash flows"
WithTerminalFlow(cash_flows, current_value_inr) ==
    IF current_value_inr > 0
    THEN Append(cash_flows, [cash_flow |-> current_value_inr, date |-> Today])
    ELSE cash_flows

\* len(cash_flows) >= 2 and len(cash_flow_dates) >= 2 and current_value_inr > 0
XirrGuard(cash_flows, current_value_inr) == Len(cash_flows) >= 2 /\ current_value_inr > 0

\* xirr(cash_flow_dates, cash_flows): pyxirr finds a rate only for payments of
\* both signs on more than one date; without them the call raises or returns
\* None
xirr(cash_flows, xirr_outcome) ==
    IF xirr_outcome # "rate" THEN xirr_outcome
    ELSE IF /\ \E i \in DOMAIN cash_flows : cash_flows[i].cash_flow < 0
            /\ \E i \in DOMAIN cash_flows : cash_flows[i].cash_flow > 0
            /\ \E i, j \in DOMAIN cash_flows : cash_flows[i].date # cash_flows[j].date
    THEN "rate" ELSE "none"

\* "Calculate XIRR": xirr_percentage, for the outcome of the call of xirr
GuardedXirr(cash_flows, current_value_inr, xirr_outcome) ==
    IF XirrGuard(cash_flows, current_value_inr) /\ xirr(cash_flows, xirr_outcome) = "rate"
    THEN XirrPercentage ELSE 0

\* what the call of xirr did, "not called" when the guard skipped it
XirrCall(cash_flows, current_value_inr, xirr_outcome) ==
    IF XirrGuard(cash_flows, current_value_inr) THEN xirr(cash_flows, xirr_outcome)
    ELSE "not called"

\* calculate_detailed_portfolio counting realized profit only when every held
\* ticker has a price
DetailedFrom_PricedRealized(loaded, market_data, xirr_outcome) ==
    LET legacy == LegacyLoop(loaded.calc_df, Unique(loaded.calc_df),
                             [holdings |-> <<>>, cash_flows |-> <<>>,
                              total_realized_profit |-> RInt(0)])
        resolved == apply_incremental_trades(loaded.snapshot_df, loaded.calc_df)
        holdings == IF loaded.use_snapshot THEN resolved ELSE legacy.holdings
        currently_held_tickers ==
            IF loaded.use_snapshot THEN HeldOf(resolved)
            ELSE get_currently_held_tickers(loaded.calc_df)
        total_realized_profit ==
            IF \E t \in Range(currently_held_tickers) : t \notin DOMAIN market_data
            THEN RInt(0)
            ELSE IF loaded.use_snapshot THEN SumRealized(resolved)
            ELSE legacy.total_realized_profit
        trade_cash_flows ==
            IF ~loaded.use_snapshot THEN legacy.cash_flows
            ELSE IF loaded.snapshot_cash_flows # <<>>
            THEN loaded.snapshot_cash_flows
                     \o TradebookCashFlows(loaded.calc_df, Unique(loaded.calc_df))
            ELSE TradebookCashFlows(loaded.full_df, Unique(loaded.full_df))
        totals == PortfolioLoop(holdings, currently_held_tickers, market_data,
                                [total_invested_inr |-> RInt(0), current_value_inr |-> 0,
                                 holdings_count |-> 0, portfolio_rows |-> <<>>])
        cash_flows == WithTerminalFlow(trade_cash_flows, totals.current_value_inr)
    IN  IF currently_held_tickers = <<>>
        THEN [op |-> "detailed", outcome |-> "returned",
              use_snapshot |-> loaded.use_snapshot, market_data |-> market_data,
              portfolio_rows |-> <<>>, summary_metrics |-> NoMetrics, df |-> TRUE,
              cash_flows |-> <<>>, xirr_call |-> "not called"]
        ELSE [op |-> "detailed", outcome |-> "returned",
              use_snapshot |-> loaded.use_snapshot, market_data |-> market_data,
              portfolio_rows |-> totals.portfolio_rows,
              summary_metrics |->
                  [exists |-> TRUE,
                   total_invested |-> totals.total_invested_inr,
                   current_value |-> totals.current_value_inr,
                   unrealized_pl |-> RSub(RInt(totals.current_value_inr),
                                          totals.total_invested_inr),
                   realized_profit |-> total_realized_profit,
                   xirr |-> GuardedXirr(cash_flows, totals.current_value_inr, xirr_outcome),
                   holdings_count |-> totals.holdings_count],
              df |-> TRUE,
              cash_flows |-> cash_flows,
              xirr_call |-> XirrCall(cash_flows, totals.current_value_inr, xirr_outcome)]

\* calculate_detailed_portfolio from the frames load_trade_data_with_snapshot
\* returned on
DetailedFrom(loaded, market_data, xirr_outcome) ==
    LET legacy == LegacyLoop(loaded.calc_df, Unique(loaded.calc_df),
                             [holdings |-> <<>>, cash_flows |-> <<>>,
                              total_realized_profit |-> RInt(0)])
        resolved == apply_incremental_trades(loaded.snapshot_df, loaded.calc_df)
        holdings == IF loaded.use_snapshot THEN resolved ELSE legacy.holdings
        currently_held_tickers ==
            IF loaded.use_snapshot THEN HeldOf(resolved)
            ELSE get_currently_held_tickers(loaded.calc_df)
        total_realized_profit ==
            IF loaded.use_snapshot THEN SumRealized(resolved)
            ELSE legacy.total_realized_profit
        trade_cash_flows ==
            IF ~loaded.use_snapshot THEN legacy.cash_flows
            ELSE IF loaded.snapshot_cash_flows # <<>>
            THEN loaded.snapshot_cash_flows
                     \o TradebookCashFlows(loaded.calc_df, Unique(loaded.calc_df))
            ELSE TradebookCashFlows(loaded.full_df, Unique(loaded.full_df))
        totals == PortfolioLoop(holdings, currently_held_tickers, market_data,
                                [total_invested_inr |-> RInt(0), current_value_inr |-> 0,
                                 holdings_count |-> 0, portfolio_rows |-> <<>>])
        cash_flows == WithTerminalFlow(trade_cash_flows, totals.current_value_inr)
    IN  IF currently_held_tickers = <<>>
        THEN [op |-> "detailed", outcome |-> "returned",
              use_snapshot |-> loaded.use_snapshot, market_data |-> market_data,
              portfolio_rows |-> <<>>, summary_metrics |-> NoMetrics, df |-> TRUE,
              cash_flows |-> <<>>, xirr_call |-> "not called"]
        ELSE [op |-> "detailed", outcome |-> "returned",
              use_snapshot |-> loaded.use_snapshot, market_data |-> market_data,
              portfolio_rows |-> totals.portfolio_rows,
              summary_metrics |->
                  [exists |-> TRUE,
                   total_invested |-> totals.total_invested_inr,
                   current_value |-> totals.current_value_inr,
                   unrealized_pl |-> RSub(RInt(totals.current_value_inr),
                                          totals.total_invested_inr),
                   realized_profit |-> total_realized_profit,
                   xirr |-> GuardedXirr(cash_flows, totals.current_value_inr, xirr_outcome),
                   holdings_count |-> totals.holdings_count],
              df |-> TRUE,
              cash_flows |-> cash_flows,
              xirr_call |-> XirrCall(cash_flows, totals.current_value_inr, xirr_outcome)]

\* what calculate_detailed_portfolio returns from its except clause
DetailedFailed ==
    [op |-> "detailed", outcome |-> "returned", use_snapshot |-> FALSE,
     market_data |-> <<>>, portfolio_rows |-> <<>>, summary_metrics |-> NoMetrics,
     df |-> FALSE, cash_flows |-> <<>>, xirr_call |-> "not called"]

\* (buys_only['Price'] * buys_only['Qty']).sum()
RECURSIVE SumPriceQty(_)
SumPriceQty(rows) ==
    IF rows = <<>> THEN 0
    ELSE Head(rows).Price * Head(rows).Qty + SumPriceQty(Tail(rows))

\* "Calculate realized profit" of calculate_portfolio_summary: every SELL row
\* against the average price of all the BUY rows of the ticker
RECURSIVE SummaryRealized(_, _, _)
SummaryRealized(sells_only, avg_buy_price, fx_rate) ==
    IF sells_only = <<>> THEN RInt(0)
    ELSE LET sell == Head(sells_only)
             sell_revenue == RInt(sell.Qty * sell.Price * fx_rate)
             sell_cost == RScale(avg_buy_price, sell.Qty * fx_rate)
         IN  RAdd(RSub(sell_revenue, sell_cost),
                  SummaryRealized(Tail(sells_only), avg_buy_price, fx_rate))

\* "for ticker in ticker_list" of calculate_portfolio_summary
RECURSIVE SummaryLoop(_, _, _, _, _)
SummaryLoop(df, ticker_list, currently_held_tickers, market_data, acc) ==
    IF ticker_list = <<>> THEN acc
    ELSE LET ticker == Head(ticker_list)
             rows == TickerTrades(df, ticker)
             buys_only == SelectSeq(rows, IsBuy)
             sells_only == SelectSeq(rows, IsSell)
             buy_qty == SumQty(buys_only)
             sell_qty == SumQty(sells_only)
             fx_rate == FirstFxRate(rows)
             avg_buy_price == RDiv(RInt(SumPriceQty(buys_only)), buy_qty)
             realized == IF sells_only # <<>> /\ buys_only # <<>>
                         THEN SummaryRealized(sells_only, avg_buy_price, fx_rate)
                         ELSE RInt(0)
             current_qty == buy_qty - sell_qty
             flows == [acc EXCEPT
                          !.cash_flows = @ \o SideCashFlows(rows, fx_rate),
                          !.total_realized_profit = RAdd(@, realized)]
         IN  SummaryLoop(df, Tail(ticker_list), currently_held_tickers, market_data,
                 IF ~BelowDust(current_qty)
                    /\ ticker \in Range(currently_held_tickers)
                    /\ ticker \in DOMAIN market_data
                 THEN [flows EXCEPT
                          !.holdings_count = @ + 1,
                          !.total_invested_inr =
                              RAdd(@, RScale(avg_buy_price, current_qty * fx_rate)),
                          !.current_value_inr =
                              @ + current_qty * market_data[ticker] * fx_rate]
                 ELSE flows)

\* calculate_portfolio_summary on the tradebook df
SummaryFrom(df, market_data, xirr_outcome) ==
    LET currently_held_tickers == get_currently_held_tickers(df)
        totals == SummaryLoop(df, Unique(df), currently_held_tickers, market_data,
                              [total_invested_inr |-> RInt(0), current_value_inr |-> 0,
                               total_realized_profit |-> RInt(0), cash_flows |-> <<>>,
                               holdings_count |-> 0])
        cash_flows == WithTerminalFlow(totals.cash_flows, totals.current_value_inr)
    IN  IF currently_held_tickers = <<>>
        THEN [op |-> "summary", outcome |-> "returned", use_snapshot |-> FALSE,
              market_data |-> market_data, portfolio_rows |-> <<>>,
              summary_metrics |-> NoMetrics, df |-> FALSE,
              cash_flows |-> <<>>, xirr_call |-> "not called"]
        ELSE [op |-> "summary", outcome |-> "returned", use_snapshot |-> FALSE,
              market_data |-> market_data, portfolio_rows |-> <<>>,
              summary_metrics |->
                  [exists |-> TRUE,
                   total_invested |-> totals.total_invested_inr,
                   current_value |-> totals.current_value_inr,
                   unrealized_pl |-> RSub(RInt(totals.current_value_inr),
                                          totals.total_invested_inr),
                   realized_profit |-> totals.total_realized_profit,
                   xirr |-> GuardedXirr(cash_flows, totals.current_value_inr, xirr_outcome),
                   holdings_count |-> totals.holdings_count],
              df |-> FALSE,
              cash_flows |-> cash_flows,
              xirr_call |-> XirrCall(cash_flows, totals.current_value_inr, xirr_outcome)]

\* what calculate_portfolio_summary returns from its except clause
SummaryFailed ==
    [op |-> "summary", outcome |-> "returned", use_snapshot |-> FALSE,
     market_data |-> <<>>, portfolio_rows |-> <<>>, summary_metrics |-> NoMetrics,
     df |-> FALSE, cash_flows |-> <<>>, xirr_call |-> "not called"]

\* One year of calculate_xirr_per_year: no entry when the cash-flow file is
\* missing or empty or the holdings file is missing. The snapshot rows carry no
\* Year_End_Price, so the year-end value is the book value of the rows.
RECURSIVE BookValue(_)
BookValue(snapshot_df) ==
    IF snapshot_df = <<>> THEN RInt(0)
    ELSE RAdd(Head(snapshot_df).Total_Invested_INR, BookValue(Tail(snapshot_df)))

YearXirr(year, holdings_file, cashflows_file, xirr_outcome) ==
    IF ~cashflows_file.exists \/ cashflows_file.cash_flows = <<>> \/ ~holdings_file.exists
    THEN <<>>
    ELSE LET year_end_value == BookValue(holdings_file.rows)
             cash_flows == [i \in DOMAIN cashflows_file.cash_flows |->
                               [cash_flow |-> cashflows_file.cash_flows[i],
                                date |-> Strptime(cashflows_file.cash_flow_dates[i])]]
             cumulative_cash_flows ==
                 IF RPos(year_end_value)
                 THEN Append(cash_flows, [cash_flow |-> year_end_value.n,
                                          date |-> Cutoff(year)])
                 ELSE cash_flows
         IN  <<[year |-> year,
                xirr |-> IF xirr(cumulative_cash_flows, xirr_outcome) = "rate"
                         THEN XirrPercentage ELSE 0,
                cash_flows_count |-> cashflows_file.trade_count,
                year_end_value |-> year_end_value,
                holdings_count |-> Len(holdings_file.rows),
                cash_flows |-> cumulative_cash_flows,
                xirr_call |-> xirr(cumulative_cash_flows, xirr_outcome)]>>

-----------------------------------------------------------------------------
(* Tradebook Builder: archivesPY/tradebook_builder.py.  The Is_SGB column  *)
(* of the tradebook and the SGB price cache are left out.                  *)

\* the source files trades*.csv of archivesCSV
TradeFileNames == {"trades1.csv", "trades2.csv"}

\* os.path.getmtime counts in fractions of a second: the model counts
\* modification times in ticks, TicksPerSecond of them to the second
TicksPerSecond == 2

MaxMtime == 3

\* a source file that does not exist
NoTradeFile == [exists |-> FALSE]

\* a file name that tradebook_processed_files.json does not hold
NotProcessed == -1

NoMetadata == [f \in TradeFileNames |-> NotProcessed]

\* a row of a source file
SourceRow(date, ticker, type, qty, price) ==
    [Date |-> date, Ticker |-> ticker, Type |-> type, Qty |-> qty,
     Price |-> price, Currency |-> Currency(ticker)]

\* get_trade_files(): glob lists the files that exist, in the order the
\* directory yields them
get_trade_files(files, glob_order) == SelectSeq(glob_order, LAMBDA f : files[f].exists)

\* datetime.fromtimestamp(mtime).strftime('%Y-%m-%d %H:%M:%S'): the string
\* names a whole second, here the number of that second
get_file_modification_time_string(mtime) == mtime \div TicksPerSecond

\* datetime.strptime(stored_time_str, '%Y-%m-%d %H:%M:%S').timestamp(), and 0
\* for a file the metadata does not hold
ProcessedMtime(metadata, file_key) ==
    IF metadata[file_key] = NotProcessed THEN 0
    ELSE metadata[file_key] * TicksPerSecond

identify_new_or_modified_files(trade_files_list, files, metadata) ==
    SelectSeq(trade_files_list,
              LAMBDA f : files[f].mtime > ProcessedMtime(metadata, f))

\* the status line tradebook_status prints for a source file
FileStatus(files, metadata, file_key) ==
    IF files[file_key].mtime > ProcessedMtime(metadata, file_key) + TicksPerSecond
    THEN "NEW/MODIFIED" ELSE "Already processed"

\* parse_trade_file(filepath): the rows of the file with their Source_File
parse_trade_file(files, file_basename) ==
    [i \in DOMAIN files[file_basename].rows |->
        files[file_basename].rows[i] @@ [Source_File |-> file_basename]]

\* add_exchange_rates_to_trades(df), for rows that carry no rate yet
add_exchange_rates_to_trades(df) ==
    [i \in DOMAIN df |->
        df[i] @@ [Exchange_Rate |-> ExchangeRate(df[i].Currency, df[i].Date)]]

\* "for filepath in new_files" of the update branch
RECURSIVE UpdateLoop(_, _, _)
UpdateLoop(new_files, files, acc) ==
    IF new_files = <<>> THEN acc
    ELSE LET file_basename == Head(new_files)
             file_df == parse_trade_file(files, file_basename)
         IN  UpdateLoop(Tail(new_files), files,
                 IF file_df # <<>>
                 THEN [df |-> SelectSeq(acc.df, LAMBDA r : r.Source_File # file_basename),
                       new_trades |-> acc.new_trades \o file_df,
                       metadata |-> [acc.metadata EXCEPT ![file_basename] =
                           get_file_modification_time_string(files[file_basename].mtime)]]
                 ELSE acc)

\* "for filepath in trade_files" of the create branch
RECURSIVE CreateLoop(_, _, _)
CreateLoop(trade_files_list, files, acc) ==
    IF trade_files_list = <<>> THEN acc
    ELSE LET file_basename == Head(trade_files_list)
             file_df == parse_trade_file(files, file_basename)
         IN  CreateLoop(Tail(trade_files_list), files,
                 IF file_df # <<>>
                 THEN [all_trades |-> acc.all_trades \o file_df,
                       metadata |-> [acc.metadata EXCEPT ![file_basename] =
                           get_file_modification_time_string(files[file_basename].mtime)]]
                 ELSE acc)

\* load_or_create_tradebook(): tradebook.csv and the metadata file as the
\* call leaves them
load_or_create_tradebook(exists, df, trade_files_list, files, metadata) ==
    IF exists
    THEN LET new_files == identify_new_or_modified_files(trade_files_list, files, metadata)
             loop == UpdateLoop(new_files, files,
                                [df |-> df, new_trades |-> <<>>, metadata |-> metadata])
         IN  IF loop.new_trades # <<>>
             THEN [exists |-> TRUE,
                   df |-> SortByDate(loop.df \o add_exchange_rates_to_trades(loop.new_trades)),
                   metadata |-> loop.metadata]
             ELSE [exists |-> TRUE, df |-> df, metadata |-> metadata]
    ELSE LET loop == CreateLoop(trade_files_list, files,
                                [all_trades |-> <<>>, metadata |-> metadata])
         IN  IF loop.all_trades = <<>>
             THEN [exists |-> FALSE, df |-> <<>>, metadata |-> metadata]
             ELSE [exists |-> TRUE,
                   df |-> add_exchange_rates_to_trades(loop.all_trades),
                   metadata |-> loop.metadata]

-----------------------------------------------------------------------------
(* State                                                                   *)

VARIABLES
    ledger,            \* the rows of archivesCSV/tradebook.csv, in file order
    holdings_files,    \* year -> content of holdings_snapshot_<year>.csv
    cashflows_files,   \* year -> content of cashflows_snapshot_<year>.json
    pc,                \* where the running FIFO pass stands
    caller_trades,     \* the ticker_trades frame the caller of a pass owns
    ticker_trades,     \* the sorted frame the pass iterates over
    idx,               \* number of rows of ticker_trades already applied
    buy_lots,          \* buy_lots of calculate_fifo_avg_price
    avg_price,         \* the value calculate_fifo_avg_price returned
    holding,           \* holdings[ticker] of apply_incremental_trades
    tradebook_exists,  \* os.path.exists('archivesCSV/tradebook.csv')
    result,            \* what the last call of an aggregator entry point returned
    trade_files,       \* name -> the source file archivesCSV/<name>
    processed_files,   \* name -> its entry of tradebook_processed_files.json
    rebuild,           \* where a running rebuild_all.py stands
    snapshot_file,     \* what the last "generate_snapshots.py single" call returned
    observed,          \* what the last get_latest_snapshot() call returned
    temp_prices,       \* ticker -> price of archivesCSV/tempCurrentPrices.csv
    fetch              \* the locals of a running calculate_detailed_portfolio

vars == <<ledger, holdings_files, cashflows_files, pc, caller_trades,
          ticker_trades, idx, buy_lots, avg_price, holding, tradebook_exists, result,
          trade_files, processed_files, rebuild, snapshot_file, observed,
          temp_prices, fetch>>

ext_vars == <<trade_files, processed_files, rebuild, snapshot_file, observed,
              temp_prices, fetch>>

agg_vars == <<tradebook_exists, result, ext_vars>>

\* no aggregator entry point has been called
NoResult == [op |-> "none"]

pass_vars == <<pc, caller_trades, ticker_trades, idx, buy_lots, avg_price, holding>>

files == <<holdings_files, cashflows_files>>

NoHolding == [exists |-> FALSE]

\* a pass may be entered when none is running
AtRest == pc \in {"idle", "avg_done", "inc_done"}

\* no source file, no metadata, no cached price, nothing running
InitExt ==
    /\ trade_files = [f \in TradeFileNames |-> NoTradeFile]
    /\ processed_files = NoMetadata
    /\ rebuild = [pc |-> "idle"]
    /\ snapshot_file = [year |-> 0, returned |-> FALSE]
    /\ observed = [op |-> "none"]
    /\ temp_prices = <<>>
    /\ fetch = [pc |-> "idle"]

InitRest ==
    /\ InitExt
    /\ holdings_files = [y \in Years |-> NoFile]
    /\ cashflows_files = [y \in Years |-> NoFile]
    /\ pc = "idle"
    /\ caller_trades = <<>>
    /\ ticker_trades = <<>>
    /\ idx = 0
    /\ buy_lots = <<>>
    /\ avg_price = RInt(0)
    /\ holding = NoHolding
    /\ tradebook_exists = TRUE
    /\ result = NoResult

-----------------------------------------------------------------------------
(* Snapshot generation                                                     *)

\* One call generate_snapshot_for_year(df, year) on the ledger: both artifacts
\* of the year are written, or the call returns None and writes nothing.
GenerateSnapshot(year) ==
    /\ pc = "idle"
    /\ tradebook_exists
    /\ LET snap == generate_snapshot_for_year(ledger, year)
       IN  IF snap.exists
           THEN /\ holdings_files' = [holdings_files EXCEPT ![year] = snap.holdings]
                /\ cashflows_files' = [cashflows_files EXCEPT ![year] = snap.cashflows]
           ELSE UNCHANGED files
    /\ UNCHANGED <<ledger, agg_vars, pass_vars>>

-----------------------------------------------------------------------------
(* calculate_fifo_avg_price, one loop iteration per step                   *)

AvgCall(ticker) ==
    /\ AtRest
    /\ TickerTrades(ledger, ticker) # <<>>
    /\ caller_trades' = TickerTrades(ledger, ticker)
    /\ ticker_trades' = SortByDateType(caller_trades')
    /\ idx' = 0
    /\ buy_lots' = <<>>
    /\ avg_price' = RInt(0)
    /\ holding' = NoHolding
    /\ pc' = "avg"
    /\ UNCHANGED <<ledger, agg_vars, files>>

AvgBuy ==
    /\ pc = "avg"
    /\ idx < Len(ticker_trades)
    /\ ticker_trades[idx + 1].Type = "BUY"
    /\ buy_lots' = ApplyTrade(buy_lots, ticker_trades[idx + 1])
    /\ idx' = idx + 1
    /\ UNCHANGED <<ledger, agg_vars, files, pc, caller_trades, ticker_trades, avg_price, holding>>

AvgSell ==
    /\ pc = "avg"
    /\ idx < Len(ticker_trades)
    /\ ticker_trades[idx + 1].Type = "SELL"
    /\ buy_lots' = ApplyTrade(buy_lots, ticker_trades[idx + 1])
    /\ idx' = idx + 1
    /\ UNCHANGED <<ledger, agg_vars, files, pc, caller_trades, ticker_trades, avg_price, holding>>

AvgReturn ==
    /\ pc = "avg"
    /\ idx = Len(ticker_trades)
    /\ avg_price' = WeightedAvg(buy_lots)
    /\ pc' = "avg_done"
    /\ UNCHANGED <<ledger, agg_vars, files, caller_trades, ticker_trades, idx, buy_lots, holding>>

-----------------------------------------------------------------------------
(* apply_incremental_trades for one ticker, one loop iteration per step    *)

\* get_latest_snapshot: the greatest year that has a holdings file
SnapshotYears == {y \in Years : holdings_files[y].exists}

LatestYear == CHOOSE y \in SnapshotYears : \A z \in SnapshotYears : z <= y

\* df[df['Date'] >= '{year}-12-31']: the trades of the cutoff day are taken again
IncrementalDf_FromCutoff == SelectSeq(ledger, LAMBDA r : r.Date >= Cutoff(LatestYear))

\* df[df['Date'] > snapshot_date]
IncrementalDf == SelectSeq(ledger, LAMBDA r : r.Date > Cutoff(LatestYear))

\* pd.read_csv(latest_file)
LatestSnapshotDf == holdings_files[LatestYear].rows

SnapshotTickers == {LatestSnapshotDf[i].Ticker : i \in DOMAIN LatestSnapshotDf}

SnapshotRowOf(ticker) ==
    LET snapshot_df == LatestSnapshotDf
    IN  snapshot_df[CHOOSE i \in DOMAIN snapshot_df : snapshot_df[i].Ticker = ticker]

\* a ticker of incremental_df['Ticker'].unique()
ResolverCall(ticker) ==
    /\ AtRest
    /\ SnapshotYears # {}
    /\ TickerTrades(IncrementalDf, ticker) # <<>>
    /\ caller_trades' = TickerTrades(IncrementalDf, ticker)
    /\ ticker_trades' = SortByDate(caller_trades')
    /\ holding' = IF ticker \in SnapshotTickers THEN SeedHolding(SnapshotRowOf(ticker))
                  ELSE NewHolding(ticker_trades'[1])
    /\ idx' = 0
    /\ buy_lots' = <<>>
    /\ avg_price' = RInt(0)
    /\ pc' = "inc"
    /\ UNCHANGED <<ledger, agg_vars, files>>

\* a ticker of the snapshot that has no incremental trade
ResolverKeep(ticker) ==
    /\ AtRest
    /\ SnapshotYears # {}
    /\ ticker \in SnapshotTickers
    /\ TickerTrades(IncrementalDf, ticker) = <<>>
    /\ caller_trades' = <<>>
    /\ ticker_trades' = <<>>
    /\ holding' = SeedHolding(SnapshotRowOf(ticker))
    /\ idx' = 0
    /\ buy_lots' = <<>>
    /\ avg_price' = RInt(0)
    /\ pc' = "inc_done"
    /\ UNCHANGED <<ledger, agg_vars, files>>

ResolverBuy ==
    /\ pc = "inc"
    /\ idx < Len(ticker_trades)
    /\ ticker_trades[idx + 1].Type = "BUY"
    /\ holding' = ResolverApply(holding, ticker_trades[idx + 1])
    /\ idx' = idx + 1
    /\ UNCHANGED <<ledger, agg_vars, files, pc, caller_trades, ticker_trades, buy_lots, avg_price>>

ResolverSell ==
    /\ pc = "inc"
    /\ idx < Len(ticker_trades)
    /\ ticker_trades[idx + 1].Type = "SELL"
    /\ holding' = ResolverApply(holding, ticker_trades[idx + 1])
    /\ idx' = idx + 1
    /\ UNCHANGED <<ledger, agg_vars, files, pc, caller_trades, ticker_trades, buy_lots, avg_price>>

ResolverFinish ==
    /\ pc = "inc"
    /\ idx = Len(ticker_trades)
    /\ holding' = ResolverRecalc(holding)
    /\ pc' = "inc_done"
    /\ UNCHANGED <<ledger, agg_vars, files, caller_trades, ticker_trades, idx, buy_lots, avg_price>>

-----------------------------------------------------------------------------
(* The entry points of the Valuation Aggregator                            *)

\* get_latest_snapshot: cash_flows and cash_flow_dates of the latest year, []
\* when the cashflows file is missing
LatestCashFlows ==
    LET log == cashflows_files[LatestYear]
    IN  IF log.exists
        THEN [i \in DOMAIN log.cash_flows |->
                 [cash_flow |-> log.cash_flows[i],
                  date |-> Strptime(log.cash_flow_dates[i])]]
        ELSE <<>>

\* a loader that hands an empty frame to the calculation when it finds no
\* snapshot
load_trade_data_with_snapshot_NoFallback(force_full_recalc) ==
    IF force_full_recalc
    THEN [full_df |-> ledger, use_snapshot |-> FALSE, snapshot_df |-> <<>>,
          calc_df |-> ledger, snapshot_cash_flows |-> <<>>]
    ELSE IF SnapshotYears = {}
    THEN [full_df |-> ledger, use_snapshot |-> FALSE, snapshot_df |-> <<>>,
          calc_df |-> <<>>, snapshot_cash_flows |-> <<>>]
    ELSE [full_df |-> ledger, use_snapshot |-> TRUE, snapshot_df |-> LatestSnapshotDf,
          calc_df |-> IncrementalDf, snapshot_cash_flows |-> LatestCashFlows]

\* load_trade_data_with_snapshot(force_full_recalc), once the tradebook is
\* loaded
load_trade_data_with_snapshot(force_full_recalc) ==
    IF force_full_recalc \/ SnapshotYears = {}
    THEN [full_df |-> ledger, use_snapshot |-> FALSE, snapshot_df |-> <<>>,
          calc_df |-> ledger, snapshot_cash_flows |-> <<>>]
    ELSE [full_df |-> ledger, use_snapshot |-> TRUE, snapshot_df |-> LatestSnapshotDf,
          calc_df |-> IncrementalDf, snapshot_cash_flows |-> LatestCashFlows]

\* One call calculate_detailed_portfolio(force_full_recalc): load_trade_data
\* raises when the tradebook is absent, and the except clause of the function
\* turns that into its empty return.
CalculateDetailedPortfolio(force_full_recalc, market_data, xirr_outcome) ==
    /\ pc = "idle"
    /\ result' = [force_full_recalc |-> force_full_recalc]
                 @@ (IF tradebook_exists
                     THEN DetailedFrom(load_trade_data_with_snapshot(force_full_recalc),
                                       market_data, xirr_outcome)
                     ELSE DetailedFailed)
    /\ UNCHANGED <<ledger, files, tradebook_exists, pass_vars, ext_vars>>

\* One call calculate_portfolio_summary() with df = None
CalculatePortfolioSummary(market_data, xirr_outcome) ==
    /\ pc = "idle"
    /\ result' = IF tradebook_exists
                 THEN SummaryFrom(ledger, market_data, xirr_outcome)
                 ELSE SummaryFailed
    /\ UNCHANGED <<ledger, files, tradebook_exists, pass_vars, ext_vars>>

\* "for cashflows_file in sorted(cashflows_files)", from year y on
RECURSIVE YearlyXirrData(_, _)
YearlyXirrData(y, xirr_outcomes) ==
    IF \A z \in Years : z < y THEN <<>>
    ELSE (IF y \in Years
          THEN YearXirr(y, holdings_files[y], cashflows_files[y], xirr_outcomes[y])
          ELSE <<>>)
         \o YearlyXirrData(y + 1, xirr_outcomes)

\* One call calculate_xirr_per_year(), pyxirr behaving as xirr_outcomes says
\* for the cash flows of each year
CalculateXirrPerYear(xirr_outcomes) ==
    /\ pc = "idle"
    /\ result' = [op |-> "xirr_per_year", outcome |-> "returned",
                  yearly_xirr_data |->
                      YearlyXirrData(CHOOSE y \in Years : \A z \in Years : y <= z,
                                     xirr_outcomes)]
    /\ UNCHANGED <<ledger, files, tradebook_exists, pass_vars, ext_vars>>

-----------------------------------------------------------------------------
(* The commands of the Tradebook Builder and the edits of the source files *)

\* the orders in which glob may list the source files
GlobOrders ==
    {o \in [1..Cardinality(TradeFileNames) -> TradeFileNames] : Range(o) = TradeFileNames}

\* the trades of one instrument in the base currency that a source file holds
FileContents ==
    LET buy1 == SourceRow(20230310, "INFY", "BUY", 2, PriceOn(20230310, "BUY"))
        sell2 == SourceRow(20231231, "INFY", "SELL", 2, PriceOn(20231231, "SELL"))
        buy3 == SourceRow(20240115, "INFY", "BUY", 2, PriceOn(20240115, "BUY"))
    IN  {<<>>, <<buy1>>, <<buy1, sell2>>, <<buy3>>}

\* A source file is created, or edited at a later time than it was before.
WriteTradeFile(f, rows, mtime) ==
    /\ pc = "idle"
    /\ trade_files[f].exists => mtime > trade_files[f].mtime
    /\ trade_files' = [trade_files EXCEPT ![f] =
                          [exists |-> TRUE, mtime |-> mtime, rows |-> rows]]
    /\ UNCHANGED <<ledger, files, pass_vars, tradebook_exists, result,
                   processed_files, rebuild, snapshot_file, observed, temp_prices, fetch>>

\* A source file is deleted.
RemoveTradeFile(f) ==
    /\ pc = "idle"
    /\ trade_files[f].exists
    /\ trade_files' = [trade_files EXCEPT ![f] = NoTradeFile]
    /\ UNCHANGED <<ledger, files, pass_vars, tradebook_exists, result,
                   processed_files, rebuild, snapshot_file, observed, temp_prices, fetch>>

\* "tradebook_builder.py consolidate": consolidate_trades()
ConsolidateTrades(glob_order) ==
    /\ pc = "idle"
    /\ LET trade_files_list == get_trade_files(trade_files, glob_order)
           book == load_or_create_tradebook(tradebook_exists, ledger, trade_files_list,
                                            trade_files, processed_files)
       IN  /\ tradebook_exists' = book.exists
           /\ ledger' = book.df
           /\ processed_files' = book.metadata
           /\ result' = [op |-> "consolidate",
                         new_files |-> IF tradebook_exists
                                       THEN identify_new_or_modified_files(
                                                trade_files_list, trade_files,
                                                processed_files)
                                       ELSE trade_files_list,
                         total_trades |-> Len(book.df)]
    /\ UNCHANGED <<files, pass_vars, trade_files, rebuild, snapshot_file, observed,
                   temp_prices, fetch>>

\* "tradebook_builder.py clear": clear_tradebook()
ClearTradebook ==
    /\ pc = "idle"
    /\ tradebook_exists' = FALSE
    /\ ledger' = <<>>
    /\ processed_files' = NoMetadata
    /\ result' = [op |-> "clear"]
    /\ UNCHANGED <<files, pass_vars, trade_files, rebuild, snapshot_file, observed,
                   temp_prices, fetch>>

\* "tradebook_builder.py rebuild": rebuild_tradebook()
RebuildTradebook(glob_order) ==
    /\ pc = "idle"
    /\ LET book == load_or_create_tradebook(FALSE, <<>>,
                                            get_trade_files(trade_files, glob_order),
                                            trade_files, NoMetadata)
       IN  /\ tradebook_exists' = book.exists
           /\ ledger' = book.df
           /\ processed_files' = book.metadata
           /\ result' = [op |-> "rebuild", total_trades |-> Len(book.df)]
    /\ UNCHANGED <<files, pass_vars, trade_files, rebuild, snapshot_file, observed,
                   temp_prices, fetch>>

-----------------------------------------------------------------------------
(* rebuild_all.py, "generate_snapshots.py single" and the readers of the  *)
(* snapshot directory                                                      *)

\* a snapshot command that adds the cash flows to the log it finds
GenerateSingle_Append(year) ==
    /\ pc = "idle"
    /\ tradebook_exists
    /\ LET snap == generate_snapshot_for_year(ledger, year)
       IN  /\ IF snap.exists
              THEN /\ holdings_files' = [holdings_files EXCEPT ![year] = snap.holdings]
                   /\ cashflows_files' = [cashflows_files EXCEPT ![year] =
                          IF cashflows_files[year].exists
                          THEN [snap.cashflows EXCEPT
                                   !.cash_flows = cashflows_files[year].cash_flows \o @,
                                   !.cash_flow_dates =
                                       cashflows_files[year].cash_flow_dates \o @]
                          ELSE snap.cashflows]
              ELSE UNCHANGED files
           /\ snapshot_file' = [year |-> year, returned |-> snap.exists]
    /\ UNCHANGED <<ledger, pass_vars, tradebook_exists, result, trade_files,
                   processed_files, rebuild, observed, temp_prices, fetch>>

\* "generate_snapshots.py single <year>": one call of
\* generate_snapshot_for_year on the tradebook, and what it returns
GenerateSingle(year) ==
    /\ pc = "idle"
    /\ tradebook_exists
    /\ LET snap == generate_snapshot_for_year(ledger, year)
       IN  /\ IF snap.exists
              THEN /\ holdings_files' = [holdings_files EXCEPT ![year] = snap.holdings]
                   /\ cashflows_files' = [cashflows_files EXCEPT ![year] = snap.cashflows]
              ELSE UNCHANGED files
           /\ snapshot_file' = [year |-> year, returned |-> snap.exists]
    /\ UNCHANGED <<ledger, pass_vars, tradebook_exists, result, trade_files,
                   processed_files, rebuild, observed, temp_prices, fetch>>

\* rebuild_all.py, step 1: the tradebook and the processing history are
\* removed.  The script goes on only when it finds a source file.
RebuildCleanup ==
    /\ rebuild.pc \in {"idle", "complete", "issues", "failed"}
    /\ \E f \in TradeFileNames : trade_files[f].exists
    /\ tradebook_exists' = FALSE
    /\ ledger' = <<>>
    /\ processed_files' = NoMetadata
    /\ rebuild' = [pc |-> "tradebook"]
    /\ UNCHANGED <<files, pass_vars, result, trade_files, snapshot_file, observed,
                   temp_prices, fetch>>

\* step 2: "tradebook_builder.py rebuild"; the script stops when no tradebook
\* was created, otherwise it lists the holdings snapshots to remove
RebuildTradebookStep(glob_order) ==
    /\ rebuild.pc = "tradebook"
    /\ LET book == load_or_create_tradebook(FALSE, <<>>,
                                            get_trade_files(trade_files, glob_order),
                                            trade_files, NoMetadata)
       IN  /\ tradebook_exists' = book.exists
           /\ ledger' = book.df
           /\ processed_files' = book.metadata
           /\ rebuild' = IF book.exists
                         THEN [pc |-> "snapshots",
                               snapshot_files |-> {y \in Years : holdings_files[y].exists}]
                         ELSE [pc |-> "failed"]
    /\ UNCHANGED <<files, pass_vars, result, trade_files, snapshot_file, observed,
                   temp_prices, fetch>>

\* step 3: os.remove of one holdings_snapshot_<y>.csv of the list
RebuildRemoveSnapshot(y) ==
    /\ rebuild.pc = "snapshots"
    /\ y \in rebuild.snapshot_files
    /\ holdings_files' = [holdings_files EXCEPT ![y] = NoFile]
    /\ rebuild' = [rebuild EXCEPT !.snapshot_files = @ \ {y}]
    /\ UNCHANGED <<ledger, cashflows_files, pass_vars, tradebook_exists, result,
                   trade_files, processed_files, snapshot_file, observed, temp_prices,
                   fetch>>

\* step 4: "python3 archivesPY/generate_snapshots.py" is started; when the
\* command fails the script reports issues and completes
RebuildRunGenerator(success) ==
    /\ rebuild.pc = "snapshots"
    /\ rebuild.snapshot_files = {}
    /\ rebuild' = IF success
                  THEN [pc |-> "holdings",
                        year |-> CHOOSE y \in Years : \A z \in Years : y <= z]
                  ELSE [pc |-> "issues"]
    /\ UNCHANGED <<ledger, files, pass_vars, tradebook_exists, result, trade_files,
                   processed_files, snapshot_file, observed, temp_prices, fetch>>

\* generate_all_snapshots: generate_snapshot_for_year of the next year, up
\* to snapshot_df.to_csv
RebuildWriteHoldings ==
    /\ rebuild.pc = "holdings"
    /\ LET snap == generate_snapshot_for_year(ledger, rebuild.year)
       IN  IF snap.exists
           THEN /\ holdings_files' = [holdings_files EXCEPT ![rebuild.year] = snap.holdings]
                /\ rebuild' = [rebuild EXCEPT !.pc = "cashflows"]
           ELSE /\ UNCHANGED holdings_files
                /\ rebuild' = IF rebuild.year + 1 \in Years
                              THEN [rebuild EXCEPT !.year = @ + 1]
                              ELSE [pc |-> "complete"]
    /\ UNCHANGED <<ledger, cashflows_files, pass_vars, tradebook_exists, result,
                   trade_files, processed_files, snapshot_file, observed, temp_prices,
                   fetch>>

\* generate_snapshot_for_year from json.dump to its return
RebuildWriteCashflows ==
    /\ rebuild.pc = "cashflows"
    /\ cashflows_files' = [cashflows_files EXCEPT ![rebuild.year] =
                              generate_snapshot_for_year(ledger, rebuild.year).cashflows]
    /\ rebuild' = IF rebuild.year + 1 \in Years
                  THEN [pc |-> "holdings", year |-> rebuild.year + 1]
                  ELSE [pc |-> "complete"]
    /\ UNCHANGED <<ledger, holdings_files, pass_vars, tradebook_exists, result,
                   trade_files, processed_files, snapshot_file, observed, temp_prices,
                   fetch>>

\* get_latest_snapshot up to pd.read_csv(latest_file)
GetLatestSnapshotHoldings ==
    /\ observed' = IF SnapshotYears = {}
                   THEN [op |-> "latest", year |-> 0]
                   ELSE [op |-> "reading", year |-> LatestYear,
                         snapshot_df |-> LatestSnapshotDf]
    /\ UNCHANGED <<ledger, files, pass_vars, tradebook_exists, result, trade_files,
                   processed_files, rebuild, snapshot_file, temp_prices, fetch>>

\* get_latest_snapshot from the cash flows file to its return; cashflows is
\* the file as read, cash_flows = [] when it is missing
GetLatestSnapshotCashFlows ==
    /\ observed.op = "reading"
    /\ observed' = [op |-> "latest", year |-> observed.year,
                    snapshot_df |-> observed.snapshot_df,
                    cashflows |-> cashflows_files[observed.year]]
    /\ UNCHANGED <<ledger, files, pass_vars, tradebook_exists, result, trade_files,
                   processed_files, rebuild, snapshot_file, temp_prices, fetch>>

-----------------------------------------------------------------------------
(* calculate_detailed_portfolio with get_market_data, one price lookup per *)
(* step.  Sovereign gold bonds, company names and previous closes are left *)
(* out; Yahoo quotes 2 for every instrument it answers for.                *)

\* calculate_detailed_portfolio up to the call of get_market_data, whose
\* locals are set up; without a held instrument the function returns at once
DetailedStart(force_full_recalc) ==
    /\ pc = "idle"
    /\ fetch.pc \in {"idle", "returned"}
    /\ LET loaded == load_trade_data_with_snapshot(force_full_recalc)
           currently_held_tickers ==
               IF loaded.use_snapshot
               THEN HeldOf(apply_incremental_trades(loaded.snapshot_df, loaded.calc_df))
               ELSE get_currently_held_tickers(loaded.calc_df)
       IN  IF ~tradebook_exists
           THEN /\ result' = [force_full_recalc |-> force_full_recalc] @@ DetailedFailed
                /\ UNCHANGED fetch
           ELSE IF currently_held_tickers = <<>>
           THEN /\ result' = [force_full_recalc |-> force_full_recalc]
                             @@ DetailedFrom(loaded, <<>>, "rate")
                /\ UNCHANGED fetch
           ELSE /\ fetch' = [pc |-> "fetching",
                             force_full_recalc |-> force_full_recalc,
                             currently_held_tickers |-> currently_held_tickers,
                             remaining |-> currently_held_tickers,
                             answers |-> <<>>,
                             market_data |-> <<>>,
                             newly_fetched_prices |-> <<>>,
                             yahoo_failures |-> 0]
                /\ UNCHANGED result
    /\ UNCHANGED <<ledger, files, pass_vars, tradebook_exists, trade_files,
                   processed_files, rebuild, snapshot_file, observed, temp_prices>>

\* a lookup loop that gives up at the first answer without a price
FetchPrice_Abort(answer) ==
    /\ fetch.pc = "fetching"
    /\ fetch.remaining # <<>>
    /\ LET ticker == Head(fetch.remaining)
       IN  fetch' = IF answer = "price"
                    THEN [fetch EXCEPT
                             !.remaining = Tail(@),
                             !.answers = @ @@ (ticker :> answer),
                             !.market_data = @ @@ (ticker :> [available |-> TRUE,
                                                              price |-> 2]),
                             !.newly_fetched_prices = @ @@ (ticker :> 2)]
                    ELSE [fetch EXCEPT
                             !.remaining = <<>>,
                             !.answers = @ @@ (ticker :> answer)]
    /\ UNCHANGED <<ledger, files, pass_vars, tradebook_exists, result, trade_files,
                   processed_files, rebuild, snapshot_file, observed, temp_prices>>

\* get_market_data, "for ticker in currently_held_tickers": one iteration.
\* Yahoo answers with a price, without one ("no_price"), with a rate limit
\* error ("rate_limited") or with another exception such as a timeout
\* ("error"); without a price the cached one is taken, None when there is none
FetchPrice(answer) ==
    /\ fetch.pc = "fetching"
    /\ fetch.remaining # <<>>
    /\ LET ticker == Head(fetch.remaining)
           entry == IF answer = "price" THEN [available |-> TRUE, price |-> 2]
                    ELSE IF ticker \in DOMAIN temp_prices
                    THEN [available |-> TRUE, price |-> temp_prices[ticker]]
                    ELSE [available |-> FALSE, price |-> 0]
       IN  fetch' = [fetch EXCEPT
                        !.remaining = Tail(@),
                        !.answers = @ @@ (ticker :> answer),
                        !.market_data = @ @@ (ticker :> entry),
                        !.newly_fetched_prices =
                            IF answer = "price" THEN @ @@ (ticker :> 2) ELSE @,
                        !.yahoo_failures =
                            IF answer = "rate_limited" THEN @ + 1 ELSE @]
    /\ UNCHANGED <<ledger, files, pass_vars, tradebook_exists, result, trade_files,
                   processed_files, rebuild, snapshot_file, observed, temp_prices>>

\* get_market_data from save_temp_prices to its return, and
\* calculate_detailed_portfolio from there to its return
DetailedFinish ==
    /\ fetch.pc = "fetching"
    /\ fetch.remaining = <<>>
    /\ temp_prices' = fetch.newly_fetched_prices @@ temp_prices
    /\ LET priced == {t \in DOMAIN fetch.market_data : fetch.market_data[t].available}
       IN  result' = [force_full_recalc |-> fetch.force_full_recalc]
                     @@ DetailedFrom(load_trade_data_with_snapshot(fetch.force_full_recalc),
                                     [t \in priced |-> fetch.market_data[t].price], "rate")
    /\ fetch' = [fetch EXCEPT !.pc = "returned"]
    /\ UNCHANGED <<ledger, files, pass_vars, tradebook_exists, trade_files,
                   processed_files, rebuild, snapshot_file, observed>>

-----------------------------------------------------------------------------
(* Specifications                                                          *)

\* ledgers in which an instrument is first traded after the cutoff of a
\* snapshot that holds another one
LedgersWithNewTicker ==
    {<<Row(20230310, "INFY", "BUY", 2, PriceOn(20230310, "BUY"))>> \o l :
        l \in Ledgers({r \in Rows({"AAPL"}, Qtys) : r.Date > Cutoff(2023)}, 2)}

\* The FIFO passes over the ledgers of one instrument.
Init ==
    /\ ledger \in Ledgers(Rows({"AAPL"}, Qtys), MaxTrades) \cup LedgersWithNewTicker
    /\ InitRest

Next ==
    \/ \E year \in Years : GenerateSnapshot(year)
    \/ \E ticker \in Tickers : AvgCall(ticker)
    \/ AvgBuy
    \/ AvgSell
    \/ AvgReturn
    \/ \E ticker \in Tickers : ResolverCall(ticker)
    \/ \E ticker \in Tickers : ResolverKeep(ticker)
    \/ ResolverBuy
    \/ ResolverSell
    \/ ResolverFinish

Spec == Init /\ [][Next]_vars

\* The Snapshot Builder over the ledgers of two instruments.
InitSnap ==
    /\ ledger \in Ledgers(Rows({"AAPL"}, Qtys) \cup Rows({"INFY"}, {1}), MaxTrades)
                   \cup {ExampleLedger}
    /\ InitRest

NextSnap ==
    \/ \E year \in Years : GenerateSnapshot(year)

SpecSnap == InitSnap /\ [][NextSnap]_vars

\* The Snapshot Builder and calculate_detailed_portfolio over the tradebooks
\* of one instrument, every price known and pyxirr returning a rate.
InitLoad ==
    /\ ledger \in Ledgers(Rows({"AAPL"}, {2}), MaxTrades)
    /\ InitRest

NextLoad ==
    \/ \E year \in Years : GenerateSnapshot(year)
    \/ \E force_full_recalc \in BOOLEAN :
          CalculateDetailedPortfolio(force_full_recalc, [t \in Tickers |-> 2], "rate")

SpecLoad == InitLoad /\ [][NextLoad]_vars

\* bonus shares: a BUY row at price 0
BonusRow == Row(20230310, "INFY", "BUY", 2, 0)

\* tradebooks of one instrument, alone and followed by bonus shares of another
XirrLedgers ==
    LET plain == Ledgers(Rows({"AAPL"}, {2}), MaxTrades - 1)
    IN  plain \cup {l \o <<BonusRow>> : l \in plain}

\* The XIRR figures of the three entry points that report one.
InitXirr ==
    /\ ledger \in XirrLedgers
    /\ InitRest

NextXirr ==
    \/ \E year \in Years : GenerateSnapshot(year)
    \/ \E force_full_recalc \in BOOLEAN, market_data \in MarketData,
          xirr_outcome \in XirrOutcomes :
              CalculateDetailedPortfolio(force_full_recalc, market_data, xirr_outcome)
    \/ \E market_data \in MarketData, xirr_outcome \in XirrOutcomes :
              CalculatePortfolioSummary(market_data, xirr_outcome)
    \/ \E xirr_outcomes \in [Years -> XirrOutcomes] : CalculateXirrPerYear(xirr_outcomes)

SpecXirr == InitXirr /\ [][NextXirr]_vars

\* the tradebooks of two instruments whose rows are in date order
AggLedgers ==
    {l \in Ledgers(Rows({"AAPL"}, {2}) \cup Rows({"INFY"}, {1}), MaxTrades) :
        \A i \in 1..(Len(l) - 1) : l[i].Date <= l[i + 1].Date}

\* The entry points of the Valuation Aggregator over the ledgers of two
\* instruments, with and without a tradebook file, pyxirr returning a rate
\* where there is one.
InitAgg ==
    /\ \/ /\ tradebook_exists = TRUE
          /\ ledger \in AggLedgers
       \/ /\ tradebook_exists = FALSE
          /\ ledger = <<>>
    /\ holdings_files = [y \in Years |-> NoFile]
    /\ cashflows_files = [y \in Years |-> NoFile]
    /\ pc = "idle"
    /\ caller_trades = <<>>
    /\ ticker_trades = <<>>
    /\ idx = 0
    /\ buy_lots = <<>>
    /\ avg_price = RInt(0)
    /\ holding = NoHolding
    /\ result = NoResult
    /\ InitExt

NextAgg ==
    \/ \E year \in Years : GenerateSnapshot(year)
    \/ \E force_full_recalc \in BOOLEAN, market_data \in MarketData :
              CalculateDetailedPortfolio(force_full_recalc, market_data, "rate")
    \/ \E market_data \in MarketData : CalculatePortfolioSummary(market_data, "rate")

SpecAgg == InitAgg /\ [][NextAgg]_vars

\* The Tradebook Builder over two source files: no tradebook, no metadata
\* and no source file to begin with.
InitBuilder ==
    /\ ledger = <<>>
    /\ tradebook_exists = FALSE
    /\ holdings_files = [y \in Years |-> NoFile]
    /\ cashflows_files = [y \in Years |-> NoFile]
    /\ pc = "idle"
    /\ caller_trades = <<>>
    /\ ticker_trades = <<>>
    /\ idx = 0
    /\ buy_lots = <<>>
    /\ avg_price = RInt(0)
    /\ holding = NoHolding
    /\ result = NoResult
    /\ InitExt

NextBuilder ==
    \/ \E f \in TradeFileNames, rows \in FileContents, mtime \in 1..MaxMtime :
          WriteTradeFile(f, rows, mtime)
    \/ \E f \in TradeFileNames : RemoveTradeFile(f)
    \/ \E glob_order \in GlobOrders : ConsolidateTrades(glob_order)
    \/ ClearTradebook
    \/ \E glob_order \in GlobOrders : RebuildTradebook(glob_order)

SpecBuilder == InitBuilder /\ [][NextBuilder]_vars

\* rebuild_all.py over the versions of one source file, which is deleted
\* before it is written anew, with the readers of the snapshot directory
\* running beside it.
NextRebuild ==
    \/ \E rows \in FileContents : WriteTradeFile("trades1.csv", rows, MaxMtime)
    \/ RemoveTradeFile("trades1.csv")
    \/ RebuildCleanup
    \/ \E glob_order \in GlobOrders : RebuildTradebookStep(glob_order)
    \/ \E y \in Years : RebuildRemoveSnapshot(y)
    \/ \E success \in BOOLEAN : RebuildRunGenerator(success)
    \/ RebuildWriteHoldings
    \/ RebuildWriteCashflows
    \/ GetLatestSnapshotHoldings
    \/ GetLatestSnapshotCashFlows
    \/ CalculateXirrPerYear([y \in Years |-> "rate"])

SpecRebuild == InitBuilder /\ [][NextRebuild]_vars

\* The snapshot command over the tradebooks that "tradebook_builder.py
\* rebuild" makes of the versions of one source file.
NextGen ==
    \/ \E rows \in FileContents : WriteTradeFile("trades1.csv", rows, MaxMtime)
    \/ RemoveTradeFile("trades1.csv")
    \/ \E glob_order \in GlobOrders : RebuildTradebook(glob_order)
    \/ \E year \in Years : GenerateSingle(year)

SpecGen == InitBuilder /\ [][NextGen]_vars

\* calculate_detailed_portfolio over the tradebooks of two instruments; the
\* price cache is empty before the first call and keeps what the calls fetch.
InitFetch ==
    /\ ledger \in Ledgers({Row(20230310, "AAPL", "BUY", 2, PriceOn(20230310, "BUY")),
                           Row(20230310, "INFY", "BUY", 2, PriceOn(20230310, "BUY")),
                           Row(20231231, "AAPL", "SELL", 2, PriceOn(20231231, "SELL"))},
                          MaxTrades)
    /\ InitRest

NextFetch ==
    \/ \E force_full_recalc \in BOOLEAN : DetailedStart(force_full_recalc)
    \/ \E answer \in {"price", "no_price", "rate_limited", "error"} : FetchPrice(answer)
    \/ DetailedFinish

SpecFetch == InitFetch /\ [][NextFetch]_vars

-----------------------------------------------------------------------------
(* Properties                                                              *)

Max0(x) == IF x > 0 THEN x ELSE 0

BuyQty(rows) == SumQty(SelectSeq(rows, IsBuy))
SellQty(rows) == SumQty(SelectSeq(rows, IsSell))

\* the remaining quantities of lots[1..n], added up
RECURSIVE SumRemaining(_, _)
SumRemaining(lots, n) == IF n = 0 THEN 0 ELSE SumRemaining(lots, n - 1) + lots[n].qty

OpenQuantity(lots) == SumRemaining(lots, Len(lots))

\* the lot queue of the pass that is running or has just returned
CurLots == IF pc \in {"inc", "inc_done"} THEN holding.buy_lots ELSE buy_lots

\* the BUY rows the pass has applied so far
BuysApplied == SelectSeq(SubSeq(ticker_trades, 1, idx), IsBuy)

\* The open quantity after the first n rows when every SELL takes what is
\* open and the rest of it is dropped.
RECURSIVE OpenAfter(_, _)
OpenAfter(rows, n) ==
    IF n = 0 THEN 0
    ELSE IF rows[n].Type = "BUY" THEN OpenAfter(rows, n - 1) + rows[n].Qty
    ELSE Max0(OpenAfter(rows, n - 1) - rows[n].Qty)

\* no BUY is applied after a SELL that exceeded the open quantity
NoBuyAfterOversell(rows) ==
    \A i \in DOMAIN rows :
        (rows[i].Type = "SELL" /\ rows[i].Qty > OpenAfter(rows, i - 1))
            => \A j \in DOMAIN rows : j > i => rows[j].Type # "BUY"

\* C1 as stated: after calculate_fifo_avg_price has matched any sequence of
\* trades of one instrument, the remaining quantities of its lots add up to
\* max(0, sum of BUY quantities - sum of SELL quantities).
C1_ConservationAnySequence ==
    pc = "avg_done" =>
        OpenQuantity(buy_lots) = Max0(BuyQty(caller_trades) - SellQty(caller_trades))

\* C1 as amended: the same equation for every sequence in which no BUY is
\* applied after a SELL that exceeded the quantity open when it was applied.
C1_Conservation ==
    (pc = "avg_done" /\ NoBuyAfterOversell(ticker_trades)) =>
        OpenQuantity(buy_lots) = Max0(BuyQty(caller_trades) - SellQty(caller_trades))

\* the pass has returned from an oversold sequence: the open quantity is
\* clamped at 0
C1_Witness ==
    /\ pc = "avg_done"
    /\ NoBuyAfterOversell(ticker_trades)
    /\ BuyQty(caller_trades) > 0
    /\ SellQty(caller_trades) > BuyQty(caller_trades)
    /\ OpenQuantity(buy_lots) = 0

\* the step applies a SELL row, in the average-cost matcher or the resolver
SellStep ==
    /\ pc \in {"avg", "inc"}
    /\ idx' = idx + 1
    /\ ticker_trades[idx + 1].Type = "SELL"

BuyStep ==
    /\ pc \in {"avg", "inc"}
    /\ idx' = idx + 1
    /\ ticker_trades[idx + 1].Type = "BUY"

\* C2: a SELL of quantity q takes min(remaining, outstanding q) from each lot
\* from the head of the queue on, so that a lot is reduced only if every
\* earlier lot is left with quantity 0.
C2_FifoOrder ==
    [][SellStep =>
        LET old == CurLots
            new == CurLots'
            q == ticker_trades[idx + 1].Qty
            outstanding(j) == Max0(q - SumRemaining(old, j - 1))
        IN  /\ Len(new) = Len(old)
            /\ \A j \in DOMAIN old :
                  /\ new[j].price = old[j].price
                  /\ new[j].qty = old[j].qty - Min(old[j].qty, outstanding(j))
                  /\ new[j].qty < old[j].qty => \A i \in 1..(j - 1) : new[i].qty = 0
    ]_vars

\* a SELL has just used up the first lot and part of the second
C2_Witness ==
    /\ pc = "inc"
    /\ idx > 0
    /\ ticker_trades[idx].Type = "SELL"
    /\ Len(holding.buy_lots) = 2
    /\ holding.buy_lots[1].qty = 0
    /\ holding.buy_lots[2].qty > 0
    /\ holding.buy_lots[2].qty < BuysApplied[1].Qty

\* the quantity the creating BUY (or the snapshot row, for the synthetic lot
\* of the resolver) gave to every lot bounds what remains of it
C3_Bounded ==
    /\ pc \in {"avg", "avg_done"} =>
          /\ Len(buy_lots) = Len(BuysApplied)
          /\ \A k \in DOMAIN buy_lots :
                buy_lots[k].qty >= 0 /\ buy_lots[k].qty <= BuysApplied[k].Qty
    /\ pc \in {"inc", "inc_done"} =>
          LET lots == holding.buy_lots
              seeded == Len(lots) - Len(BuysApplied)
          IN  /\ seeded \in {0, 1}
              /\ \A k \in DOMAIN lots :
                    /\ lots[k].qty >= 0
                    /\ k > seeded => lots[k].qty <= BuysApplied[k - seeded].Qty
                    /\ k <= seeded =>
                          \E i \in DOMAIN LatestSnapshotDf :
                              /\ lots[k].price = LatestSnapshotDf[i].Avg_Buy_Price
                              /\ lots[k].qty <= LatestSnapshotDf[i].Qty

C3_Step ==
    pc \in {"avg", "inc"} =>
        LET old == CurLots
            new == CurLots'
        IN  /\ Len(new) >= Len(old)
            /\ \A k \in DOMAIN old :
                  /\ new[k].qty <= old[k].qty
                  /\ old[k].qty = 0 => new[k].qty = 0
                  /\ new[k].price = old[k].price
            /\ BuyStep =>
                  /\ Len(new) = Len(old) + 1
                  /\ new[Len(new)] = Lot(ticker_trades[idx + 1].Qty,
                                         RInt(ticker_trades[idx + 1].Price))
                  /\ \A k \in DOMAIN old : new[k] = old[k]
            /\ ~BuyStep => Len(new) = Len(old)

\* C3: throughout a FIFO pass every lot has 0 <= remaining <= the quantity it
\* was created with, no step increases the remaining quantity of a lot, a lot
\* at 0 stays at 0, and only a BUY adds a lot: exactly one, at the tail.
C3_LotLifecycle == []C3_Bounded /\ [][C3_Step]_vars

\* a BUY has been applied behind an exhausted lot, which stays exhausted
C3_Witness ==
    /\ pc = "avg"
    /\ idx > 0
    /\ ticker_trades[idx].Type = "BUY"
    /\ Len(buy_lots) = 2
    /\ buy_lots[1].qty = 0
    /\ buy_lots[2].qty > 0

\* the trades of a ticker that a snapshot of the year covers
TradesUpTo(year, ticker) == TickerTrades(FilterUpTo(ledger, year), ticker)

\* The FIFO matcher of the specification over rows in matching order: a BUY
\* appends a lot, a SELL is matched against the lots open when it is applied.
\* The matched portions are converted at fx_rate, or at the Exchange_Rate of
\* the SELL row when fx_rate is 0.
RECURSIVE FifoMatch(_, _, _)
FifoMatch(state, rows, fx_rate) ==
    IF rows = <<>> THEN state
    ELSE LET row == Head(rows)
             rate == IF fx_rate = 0 THEN row.Exchange_Rate ELSE fx_rate
         IN  FifoMatch(IF row.Type = "BUY"
                       THEN [state EXCEPT !.lots = Append(@, Lot(row.Qty, RInt(row.Price)))]
                       ELSE MatchLots(state.lots, 1, row.Qty, row.Price, rate, state.profit),
                       Tail(rows), fx_rate)

FifoPosition(trades, fx_rate) ==
    FifoMatch([lots |-> <<>>, profit |-> RInt(0)], SortByDateType(trades), fx_rate)

\* C4 as stated, for the positions the Snapshot Builder stores: the realized
\* profit of an instrument is the sum over the FIFO matches of its SELLs of
\* (sell price - lot price) x matched quantity x fx, each SELL being matched
\* against the lots that are open when it is applied.
C4_RealizedProfit ==
    \A y \in Years :
        holdings_files[y].exists =>
            \A i \in DOMAIN holdings_files[y].rows :
                LET row == holdings_files[y].rows[i]
                IN  row.Realized_Profit_INR =
                        RRound(FifoPosition(TradesUpTo(y, row.Ticker),
                                            row.Exchange_Rate).profit, 1)

\* the example of C4: BUY 10 @ 100, BUY 10 @ 120, SELL 15 @ 150 at fx 1 gives
\* a realized profit of 650 and leaves 5 @ 120, average cost 120
C4_Example ==
    (ledger = ExampleLedger /\ holdings_files[2023].exists) =>
        /\ Len(holdings_files[2023].rows) = 1
        /\ holdings_files[2023].rows[1].Realized_Profit_INR = RInt(65000)
        /\ holdings_files[2023].rows[1].Qty = 500
        /\ holdings_files[2023].rows[1].Avg_Buy_Price = RInt(120)
        /\ SelectSeq(FifoLots(ExampleLedger), LAMBDA l : l.qty > 0)
               = <<Lot(500, RInt(120))>>

\* the realized-profit pass of the Snapshot Builder with every SELL converted
\* at its own Exchange_Rate
RECURSIVE MatchSellsAtSellFx(_, _)
MatchSellsAtSellFx(state, rows) ==
    IF rows = <<>> THEN state
    ELSE IF Head(rows).Type = "SELL"
         THEN MatchSellsAtSellFx(MatchLots(state.lots, 1, Head(rows).Qty, Head(rows).Price,
                                           Head(rows).Exchange_Rate, state.profit),
                                 Tail(rows))
         ELSE MatchSellsAtSellFx(state, Tail(rows))

\* C5 as stated, for the Snapshot Builder: the fx applied to every matched
\* portion of a SELL is the Exchange_Rate of that SELL trade.
C5_SellTradeFx ==
    \A y \in Years :
        holdings_files[y].exists =>
            \A i \in DOMAIN holdings_files[y].rows :
                LET row == holdings_files[y].rows[i]
                    sorted_trades == SortByDate(TradesUpTo(y, row.Ticker))
                IN  row.Realized_Profit_INR =
                        RRound(MatchSellsAtSellFx([lots |-> LoadBuyLots(sorted_trades),
                                                   profit |-> RInt(0)],
                                                  sorted_trades).profit, 1)

\* C6 as stated: every FIFO pass applies the trades of an instrument in date
\* order, and on one date every BUY before every SELL.
C6_TieBreak ==
    pc \in {"avg", "avg_done", "inc", "inc_done"} =>
        \A i, j \in DOMAIN ticker_trades :
            i < j =>
                \/ ticker_trades[i].Date < ticker_trades[j].Date
                \/ /\ ticker_trades[i].Date = ticker_trades[j].Date
                   /\ ~(ticker_trades[i].Type = "SELL" /\ ticker_trades[j].Type = "BUY")

\* C7 as stated: the open quantity of every position the Snapshot Builder
\* stores and of every position the resolver returns is the sum of the
\* remaining quantities of its lot queue, and is never negative.
C7_OpenQuantity ==
    /\ \A y \in Years :
          holdings_files[y].exists =>
              \A i \in DOMAIN holdings_files[y].rows :
                  LET row == holdings_files[y].rows[i]
                  IN  /\ row.Qty >= 0
                      /\ row.Qty = OpenQuantity(FifoLots(TradesUpTo(y, row.Ticker)))
    /\ pc = "inc_done" =>
          /\ holding.qty >= 0
          /\ holding.qty = OpenQuantity(holding.buy_lots)

\* the quantity and the value of the lots among lots[1..n] that are open
RECURSIVE OpenLotsQty(_, _)
OpenLotsQty(lots, n) ==
    IF n = 0 THEN 0
    ELSE OpenLotsQty(lots, n - 1) + (IF lots[n].qty > 0 THEN lots[n].qty ELSE 0)

RECURSIVE OpenLotsValue(_, _)
OpenLotsValue(lots, n) ==
    IF n = 0 THEN RInt(0)
    ELSE IF lots[n].qty > 0
         THEN RAdd(OpenLotsValue(lots, n - 1), RScale(lots[n].price, lots[n].qty))
         ELSE OpenLotsValue(lots, n - 1)

IsWeightedAverage(avg, lots) ==
    IF OpenLotsQty(lots, Len(lots)) = 0 THEN avg = RInt(0)
    ELSE RScale(avg, OpenLotsQty(lots, Len(lots))) = OpenLotsValue(lots, Len(lots))

C8_Average ==
    /\ pc = "avg_done" => IsWeightedAverage(avg_price, buy_lots)
    /\ pc = "inc_done" => IsWeightedAverage(holding.avg_price, holding.buy_lots)

C8_ReadOnly ==
    /\ pc \in {"avg", "inc"} => (caller_trades' = caller_trades /\ ledger' = ledger)
    /\ (pc = "avg" /\ pc' = "avg_done") => buy_lots' = buy_lots
    /\ (pc = "inc" /\ pc' = "inc_done") =>
          /\ holding'.buy_lots = holding.buy_lots
          /\ holding'.qty = holding.qty
          /\ holding'.realized_profit = holding.realized_profit

\* C8: the average cost of a position is sum(remaining x price) / sum(remaining)
\* over the lots with remaining > 0, and 0 when nothing is open; computing it
\* changes neither the trades of the caller nor the lots.
C8_WeightedAverage == []C8_Average /\ [][C8_ReadOnly]_vars

\* the average of two open lots of different quantity is not a whole price
C8_Witness ==
    /\ pc = "avg_done"
    /\ Len(SelectSeq(buy_lots, LAMBDA l : l.qty > 0)) >= 2
    /\ avg_price.d > 1

\* C9 as stated: the quantity, the average cost and the realized profit the
\* snapshot of year Y stores for an instrument are those of FIFO-matching
\* exactly the trades dated at or before Y-12-31, rounded as the file is.
C9_SnapshotRoundTrip ==
    \A y \in Years :
        holdings_files[y].exists =>
            \A i \in DOMAIN holdings_files[y].rows :
                LET row == holdings_files[y].rows[i]
                    position == FifoPosition(TradesUpTo(y, row.Ticker), 0)
                IN  /\ row.Qty = OpenQuantity(position.lots)
                    /\ row.Avg_Buy_Price = RRound(WeightedAvg(position.lots), 1000000)
                    /\ row.Realized_Profit_INR = RRound(position.profit, 1)

SeqToBag(s) == [x \in Range(s) |-> Cardinality({i \in DOMAIN s : s[i] = x})]

\* the entry the cash-flow log owes to one trade
CashFlowOf(trade) ==
    [cash_flow |-> IF trade.Type = "BUY"
                   THEN 0 - trade.Qty * trade.Price * trade.Exchange_Rate
                   ELSE trade.Qty * trade.Price * trade.Exchange_Rate,
     date |-> trade.Date]

RECURSIVE SumNegative(_, _)
SumNegative(flows, n) ==
    IF n = 0 THEN 0
    ELSE SumNegative(flows, n - 1) + (IF flows[n] < 0 THEN flows[n] ELSE 0)

RECURSIVE BuyOutlay(_, _)
BuyOutlay(trades, n) ==
    IF n = 0 THEN 0
    ELSE BuyOutlay(trades, n - 1)
         + (IF trades[n].Type = "BUY"
            THEN trades[n].Qty * trades[n].Price * trades[n].Exchange_Rate ELSE 0)

\* C10: the cash-flow log of the snapshot of year Y has exactly one entry per
\* trade dated at or before the cutoff, of closed instruments too: a BUY gives
\* -(qty x price x fx), a SELL +(qty x price x fx), at the date of the trade;
\* its negative entries add up to minus the total BUY outlay.
C10_CashFlowLog ==
    \A y \in Years :
        cashflows_files[y].exists =>
            LET log == cashflows_files[y]
                trades == FilterUpTo(ledger, y)
                entries == [i \in DOMAIN log.cash_flows |->
                               [cash_flow |-> log.cash_flows[i],
                                date |-> Strptime(log.cash_flow_dates[i])]]
            IN  /\ Len(log.cash_flows) = Len(trades)
                /\ Len(log.cash_flow_dates) = Len(trades)
                /\ log.trade_count = Len(trades)
                /\ SeqToBag(entries) = SeqToBag([i \in DOMAIN trades |-> CashFlowOf(trades[i])])
                /\ SumNegative(log.cash_flows, Len(log.cash_flows))
                       = 0 - BuyOutlay(trades, Len(trades))

\* a snapshot has been written whose cutoff ledger holds the trades of an
\* instrument that is fully closed and therefore has no holdings row
C10_Witness ==
    \E y \in Years :
        /\ cashflows_files[y].exists
        /\ \E ticker \in Tickers :
              /\ TradesUpTo(y, ticker) # <<>>
              /\ CurrentQty(TradesUpTo(y, ticker)) = 0
              /\ \A i \in DOMAIN holdings_files[y].rows :
                     holdings_files[y].rows[i].Ticker # ticker

\* the resolver takes up an instrument: the trades after the cutoff, or none
ResolverEntry == pc \in {"idle", "avg_done", "inc_done"} /\ pc' \in {"inc", "inc_done"}

\* the synthetic lot of a row of the latest snapshot
IsSyntheticLot(lot, ticker) ==
    \E i \in DOMAIN LatestSnapshotDf :
        /\ LatestSnapshotDf[i].Ticker = ticker
        /\ lot.qty = LatestSnapshotDf[i].Qty
        /\ lot.price = LatestSnapshotDf[i].Avg_Buy_Price

C12_Step ==
    /\ (ResolverEntry /\ ticker_trades' # <<>>) =>
          LET ticker == ticker_trades'[1].Ticker
          IN  IF ticker \in SnapshotTickers
              THEN /\ Len(holding'.buy_lots) = 1
                   /\ IsSyntheticLot(holding'.buy_lots[1], ticker)
              ELSE /\ holding'.buy_lots = <<>>
                   /\ holding'.qty = 0
                   /\ holding'.realized_profit = RInt(0)
    /\ (ResolverEntry /\ ticker_trades' = <<>>) =>
          /\ Len(holding'.buy_lots) = 1
          /\ \E ticker \in SnapshotTickers : IsSyntheticLot(holding'.buy_lots[1], ticker)
    /\ (pc = "inc" /\ BuyStep) =>
          holding'.buy_lots = Append(holding.buy_lots,
                                     Lot(ticker_trades[idx + 1].Qty,
                                         RInt(ticker_trades[idx + 1].Price)))
    /\ (pc = "inc" /\ SellStep /\ Len(holding.buy_lots) > Len(BuysApplied)) =>
          /\ holding'.buy_lots[1].qty =
                 holding.buy_lots[1].qty
                     - Min(holding.buy_lots[1].qty, ticker_trades[idx + 1].Qty)
          /\ \A k \in 2..Len(holding.buy_lots) :
                 holding'.buy_lots[k].qty < holding.buy_lots[k].qty
                     => holding'.buy_lots[1].qty = 0

\* C12: the resolver seeds a snapshot instrument with exactly one synthetic
\* lot {snapshot quantity, snapshot average cost}, appends a lot per later
\* BUY, matches a later SELL against the synthetic lot before any later lot,
\* and starts an instrument the snapshot does not hold with no lot, quantity 0
\* and realized profit 0.
C12_ResolverSeeding == [][C12_Step]_vars

\* the resolver has finished an instrument whose synthetic lot a later SELL
\* used up before it took from the lot of a later BUY
C12_Witness ==
    /\ pc = "inc_done"
    /\ Len(holding.buy_lots) = 2
    /\ Len(BuysApplied) = 1
    /\ holding.buy_lots[1].qty = 0
    /\ holding.buy_lots[2].qty > 0
    /\ holding.buy_lots[2].qty < BuysApplied[1].Qty

-----------------------------------------------------------------------------
(* Valuation Aggregator                                                    *)

\* a call of calculate_detailed_portfolio has returned summary metrics
DetailedDone == result.op = "detailed" /\ result.summary_metrics.exists

\* a call of calculate_portfolio_summary has returned summary metrics
SummaryDone == result.op = "summary" /\ result.summary_metrics.exists

\* the tickers of the rows of a result
RowTickers(rows) == {rows[i].Ticker : i \in DOMAIN rows}

\* the realized profit of every instrument of the tradebook, the fully exited
\* ones included, each by the FIFO pass over all its trades
RECURSIVE RealizedOfAll(_, _)
RealizedOfAll(df, ticker_list) ==
    IF ticker_list = <<>> THEN RInt(0)
    ELSE RAdd(LegacyHolding(TickerTrades(df, Head(ticker_list))).realized_profit,
              RealizedOfAll(df, Tail(ticker_list)))

\* the instruments the tradebook has left with less than 0.001 units
DustTickers(df) == {t \in Range(Unique(df)) : BelowDust(CurrentQty(TickerTrades(df, t)))}

\* C11: an instrument whose open quantity is below the dust threshold of
\* 0.001 units, a fully exited one included, has no row among the positions
\* of calculate_detailed_portfolio, and the total realized profit the call
\* reports still counts the realized profit of every instrument, on the
\* snapshot path and on the full-history path.
C11_DustRealizedCounted ==
    DetailedDone =>
        /\ RowTickers(result.portfolio_rows) \cap DustTickers(ledger) = {}
        /\ result.summary_metrics.realized_profit = RealizedOfAll(ledger, Unique(ledger))

-----------------------------------------------------------------------------
(* Incremental Resolver against the full-history replay                    *)

\* the instrument of holding
HoldingTicker == CHOOSE t \in Tickers : Currency(t) = holding.currency

\* An instrument without a re-open after a full close: its rows are in
\* matching order, no SELL exceeds the quantity open when it is applied, and
\* no BUY follows a row that leaves the position empty.
NoReopenAfterClose(rows) ==
    /\ rows = SortByDateType(rows)
    /\ \A i \in DOMAIN rows :
          /\ rows[i].Type = "SELL" => rows[i].Qty <= OpenAfter(rows, i - 1)
          /\ (i > 1 /\ rows[i].Type = "BUY") => OpenAfter(rows, i - 1) > 0

\* C13: for an instrument without a re-open after a full close,
\* apply_incremental_trades on the latest snapshot ends with the open quantity
\* and the cumulative realized profit that a FIFO replay of the instrument's
\* whole history yields.
C13_ResolverEqualsReplay ==
    (pc = "inc_done" /\ NoReopenAfterClose(TickerTrades(ledger, HoldingTicker))) =>
        LET replay == FifoPosition(TickerTrades(ledger, HoldingTicker), 0)
        IN  /\ holding.qty = LotsQty(replay.lots)
            /\ holding.realized_profit = replay.profit

\* The same for the instruments whose snapshot holds BUY rows only, where the
\* snapshot row states the replay of the rows up to the cutoff exactly, apart
\* from the rounding of the average.
C13_BuysOnlySnapshot ==
    (/\ pc = "inc_done"
     /\ NoReopenAfterClose(TickerTrades(ledger, HoldingTicker))
     /\ \A i \in DOMAIN ledger :
            ledger[i].Date <= Cutoff(LatestYear) => ledger[i].Type = "BUY") =>
        holding.realized_profit = FifoPosition(TickerTrades(ledger, HoldingTicker), 0).profit

-----------------------------------------------------------------------------
(* Snapshot path against full-history path                                 *)

\* the metrics of a return that C14 compares
ComparedMetrics(r) ==
    IF r.summary_metrics.exists
    THEN [exists |-> TRUE,
          total_invested |-> r.summary_metrics.total_invested,
          current_value |-> r.summary_metrics.current_value,
          realized_profit |-> r.summary_metrics.realized_profit,
          holdings_count |-> r.summary_metrics.holdings_count]
    ELSE NoMetrics

\* C14: a call of calculate_detailed_portfolio that took the snapshot path
\* returns the total invested, current value, realized profit and holdings
\* count that the full-history path returns for the same tradebook and the
\* same prices, and hands the same multiset of dated cash flows to XIRR.
C14_PathsAgree ==
    (result.op = "detailed" /\ result.use_snapshot) =>
        LET full == DetailedFrom(load_trade_data_with_snapshot(TRUE),
                                 result.market_data, "rate")
        IN  /\ ComparedMetrics(result) = ComparedMetrics(full)
            /\ result.xirr_call = full.xirr_call
            /\ result.xirr_call # "not called" =>
                   SeqToBag(result.cash_flows) = SeqToBag(full.cash_flows)

\* C15: calculate_portfolio_summary reports the realized profit and the total
\* invested that calculate_detailed_portfolio reports on the full-history
\* path for the same tradebook and prices, both being FIFO figures.
C15_SummaryAgreesWithDetailed ==
    SummaryDone =>
        LET full == DetailedFrom(load_trade_data_with_snapshot(TRUE),
                                 result.market_data, "rate")
        IN  /\ full.summary_metrics.exists
            /\ result.summary_metrics.realized_profit = full.summary_metrics.realized_profit
            /\ result.summary_metrics.total_invested = full.summary_metrics.total_invested

\* The same for tradebooks of which every instrument is held and priced.
C15_AllHeldAndPriced ==
    (/\ SummaryDone
     /\ \A t \in Range(Unique(ledger)) :
            /\ t \in Range(get_currently_held_tickers(ledger))
            /\ t \in DOMAIN result.market_data) =>
        LET full == DetailedFrom(load_trade_data_with_snapshot(TRUE),
                                 result.market_data, "rate")
        IN  /\ result.summary_metrics.realized_profit = full.summary_metrics.realized_profit
            /\ result.summary_metrics.total_invested = full.summary_metrics.total_invested

-----------------------------------------------------------------------------
(* No snapshot                                                             *)

\* what the legacy calculation over the whole tradebook finds
FullLedgerLoop ==
    LegacyLoop(ledger, Unique(ledger),
               [holdings |-> <<>>, cash_flows |-> <<>>, total_realized_profit |-> RInt(0)])

C16_Step ==
    /\ \A y \in Years :
          FilterUpTo(ledger, y) = <<>> =>
              /\ holdings_files'[y] = holdings_files[y]
              /\ cashflows_files'[y] = cashflows_files[y]
              /\ pc' = pc
    /\ (/\ result' # result
        /\ result'.op = "detailed"
        /\ ~result'.force_full_recalc
        /\ SnapshotYears = {}) =>
          /\ result'.outcome = "returned"
          /\ ~result'.use_snapshot
          /\ result'.df
          /\ RowTickers(result'.portfolio_rows)
                 = Range(get_currently_held_tickers(ledger))
          /\ result'.summary_metrics.exists =>
                 /\ result'.summary_metrics.realized_profit
                        = FullLedgerLoop.total_realized_profit
                 /\ SeqToBag(result'.cash_flows)
                        = SeqToBag(WithTerminalFlow(FullLedgerLoop.cash_flows,
                                                    result'.summary_metrics.current_value))

\* C16: generate_snapshot_for_year writes neither file of a year whose cutoff
\* no trade precedes and returns normally, and a call of
\* calculate_detailed_portfolio that finds no snapshot computes its result
\* from the whole tradebook.
C16_NoSnapshotFallback == [][C16_Step]_vars

\* no trade is dated at or before the cutoff of 2023, no snapshot exists, and
\* a call without force_full_recalc has valued the position from the whole
\* tradebook
C16_Witness ==
    /\ ledger # <<>>
    /\ FilterUpTo(ledger, 2023) = <<>>
    /\ SnapshotYears = {}
    /\ result.op = "detailed"
    /\ ~result.force_full_recalc
    /\ result.summary_metrics.exists
    /\ result.summary_metrics.holdings_count = 1

-----------------------------------------------------------------------------
(* Unknown prices                                                          *)

\* get_market_data has a price for every ticker
AllPrices == [t \in Tickers |-> 2]

\* the same call with every price known
WithAllPrices(r) ==
    IF r.op = "summary" THEN SummaryFrom(ledger, AllPrices, "rate")
    ELSE DetailedFrom(load_trade_data_with_snapshot(r.force_full_recalc), AllPrices, "rate")

\* the positions of a call of calculate_detailed_portfolio that have no price
Unpriced(r) ==
    {t \in RowTickers(WithAllPrices(r).portfolio_rows) : t \notin DOMAIN r.market_data}

\* the market values of the rows that have one
RECURSIVE SumKnownValue(_)
SumKnownValue(rows) ==
    IF rows = <<>> THEN RInt(0)
    ELSE RAdd(IF Head(rows).Current_Value_INR = NaN THEN RInt(0)
              ELSE Head(rows).Current_Value_INR,
              SumKnownValue(Tail(rows)))

C17_Step ==
    (/\ result' # result
     /\ result'.op \in {"detailed", "summary"}
     /\ result'.summary_metrics.exists) =>
        /\ result'.summary_metrics.total_invested
               = WithAllPrices(result').summary_metrics.total_invested
        /\ result'.op = "detailed" =>
               /\ \A t \in Unpriced(result') :
                      \E i \in DOMAIN result'.portfolio_rows :
                          /\ result'.portfolio_rows[i].Ticker = t
                          /\ result'.portfolio_rows[i].Current_Value_INR = NaN
                          /\ result'.portfolio_rows[i].Invested_Value_INR # NaN
               /\ RInt(result'.summary_metrics.current_value)
                      = SumKnownValue(result'.portfolio_rows)

\* C17: in calculate_detailed_portfolio and in calculate_portfolio_summary a
\* held position whose price is unknown stays in the result, with an unknown
\* market value in its row, its invested amount is part of the total
\* invested, and it adds nothing to the market value.
C17_UnknownPriceKept == [][C17_Step]_vars

-----------------------------------------------------------------------------
(* Unrealized profit                                                       *)

\* the totals of the positions of a call of calculate_detailed_portfolio that
\* have a price
PricedTotals(r) ==
    LET loaded == load_trade_data_with_snapshot(r.force_full_recalc)
        positions == IF loaded.use_snapshot
                     THEN apply_incremental_trades(loaded.snapshot_df, loaded.calc_df)
                     ELSE FullLedgerLoop.holdings
        held == IF loaded.use_snapshot THEN HeldOf(positions)
                ELSE get_currently_held_tickers(loaded.calc_df)
    IN  PortfolioLoop(positions,
                      SelectSeq(held, LAMBDA t : t \in DOMAIN r.market_data),
                      r.market_data,
                      [total_invested_inr |-> RInt(0), current_value_inr |-> 0,
                       holdings_count |-> 0, portfolio_rows |-> <<>>])

C18_Step ==
    (/\ result' # result
     /\ result'.op = "detailed"
     /\ result'.summary_metrics.exists) =>
        result'.summary_metrics.unrealized_pl
            = RSub(RInt(PricedTotals(result').current_value_inr),
                   PricedTotals(result').total_invested_inr)

\* C18: the unrealized profit calculate_detailed_portfolio reports is the sum,
\* over the positions whose price is known, of market value minus invested
\* amount.
C18_UnrealizedOverPriced == [][C18_Step]_vars

-----------------------------------------------------------------------------
(* XIRR on degenerate input                                                *)

\* the last of the cash flows is the terminal value at the given date
TerminalFlow(cash_flows, value, date) ==
    /\ cash_flows # <<>>
    /\ cash_flows[Len(cash_flows)] = [cash_flow |-> value, date |-> date]

\* what C19 says of one reported XIRR figure; appended tells that the cash
\* flows hold one more entry than the trades gave
DegenerateIsZero(cash_flows, appended, value, date, xirr_call, xirr_percentage) ==
    /\ appended <=> value > 0
    /\ appended => TerminalFlow(cash_flows, value, date)
    /\ (value <= 0 \/ Len(cash_flows) < 2 \/ xirr_call \in {"raise", "none"})
           => xirr_percentage = 0

\* what C19 says of a return of calculate_detailed_portfolio or
\* calculate_portfolio_summary: no trade is dated Today
GuardedEntryPoint(r) ==
    /\ r.outcome = "returned"
    /\ DegenerateIsZero(r.cash_flows,
                        \E i \in DOMAIN r.cash_flows : r.cash_flows[i].date = Today,
                        r.summary_metrics.current_value, Today,
                        r.xirr_call, r.summary_metrics.xirr)

\* C19: every entry point that reports an XIRR appends the terminal cash flow
\* (the total value, dated at the valuation date) after the trade cash flows
\* only when that value is positive, and reports 0 whenever the value is 0,
\* there are fewer than 2 cash flows or pyxirr raises or returns None; the
\* call returns normally.
C19_XirrDegenerate ==
    /\ (result.op \in {"detailed", "summary"} /\ result.summary_metrics.exists) =>
          GuardedEntryPoint(result)
    /\ result.op = "xirr_per_year" =>
          /\ result.outcome = "returned"
          /\ \A i \in DOMAIN result.yearly_xirr_data :
                LET e == result.yearly_xirr_data[i]
                IN  DegenerateIsZero(e.cash_flows,
                                     Len(e.cash_flows) = e.cash_flows_count + 1,
                                     e.year_end_value.n, Cutoff(e.year),
                                     e.xirr_call, e.xirr)

\* The same for calculate_detailed_portfolio and calculate_portfolio_summary
\* alone.
C19_GuardedEntryPoints ==
    (result.op \in {"detailed", "summary"} /\ result.summary_metrics.exists) =>
        GuardedEntryPoint(result)

-----------------------------------------------------------------------------
(* Missing tradebook                                                       *)

\* C20: when archivesCSV/tradebook.csv is absent, a call of
\* calculate_detailed_portfolio or calculate_portfolio_summary ends in an
\* error that reaches its caller, not in a normal return, and gives no rows
\* and no metrics.
C20_MissingLedgerIsFatal ==
    (result.op \in {"detailed", "summary"} /\ ~tradebook_exists) =>
        /\ result.outcome = "error"
        /\ result.portfolio_rows = <<>>
        /\ ~result.summary_metrics.exists

-----------------------------------------------------------------------------
(* The two FIFO passes of the Snapshot Builder                             *)

\* C28: for every instrument the Snapshot Builder stores, the realized-profit
\* pass, which loads every BUY as a lot before it matches the SELLs, and
\* calculate_fifo_avg_price, which applies BUYs and SELLs interleaved, leave
\* the same remaining quantity in every lot, so no SELL is matched against a
\* lot bought after it.
C28_PassesLeaveSameLots ==
    \A y \in Years :
        holdings_files[y].exists =>
            \A i \in DOMAIN holdings_files[y].rows :
                LET trades == TradesUpTo(y, holdings_files[y].rows[i].Ticker)
                IN  (SelectSeq(trades, IsSell) # <<>> /\ SelectSeq(trades, IsBuy) # <<>>) =>
                        RealizedPass(trades, SnapshotFxRate(trades)).lots = FifoLots(trades)

-----------------------------------------------------------------------------
(* Realized profit and prices                                              *)

C25_Step ==
    (result' # result /\ result'.op = "detailed") =>
        \A market_data \in MarketData :
            LET other == DetailedFrom(load_trade_data_with_snapshot(result'.force_full_recalc),
                                      market_data, "rate")
            IN  /\ other.summary_metrics.exists = result'.summary_metrics.exists
                /\ other.summary_metrics.exists =>
                       other.summary_metrics.realized_profit
                           = result'.summary_metrics.realized_profit

\* C25: the realized profit a call of calculate_detailed_portfolio reports is
\* the one it reports for the same tradebook and snapshot under any other
\* outcome of the price lookup, unavailable prices included.
C25_RealizedIgnoresPrices == [][C25_Step]_vars

\* a call on the snapshot path has reported a realized profit other than 0
C25_Witness ==
    /\ result.op = "detailed"
    /\ result.use_snapshot
    /\ result.summary_metrics.exists
    /\ result.summary_metrics.realized_profit # RInt(0)

-----------------------------------------------------------------------------
(* Snapshot / incremental partition                                        *)

\* the dates of the cash flows that stem from trades: no trade is dated Today
TradeFlowDates(cash_flows) ==
    LET trade_flows == SelectSeq(cash_flows, LAMBDA f : f.date # Today)
    IN  [i \in DOMAIN trade_flows |-> trade_flows[i].date]

C27_Step ==
    (/\ result' # result
     /\ result'.op = "detailed"
     /\ result'.use_snapshot
     /\ generate_snapshot_for_year(ledger, LatestYear).exists
     /\ holdings_files[LatestYear] = generate_snapshot_for_year(ledger, LatestYear).holdings
     /\ cashflows_files[LatestYear] = generate_snapshot_for_year(ledger, LatestYear).cashflows) =>
        /\ \A i \in DOMAIN ledger :
               (ledger[i].Date <= Cutoff(LatestYear)) # (ledger[i].Date > Cutoff(LatestYear))
        /\ Len(FilterUpTo(ledger, LatestYear)) + Len(IncrementalDf) = Len(ledger)
        /\ SeqToBag(FilterUpTo(ledger, LatestYear) \o IncrementalDf) = SeqToBag(ledger)
        /\ result'.summary_metrics.exists =>
               SeqToBag(TradeFlowDates(result'.cash_flows))
                   = SeqToBag([i \in DOMAIN ledger |-> ledger[i].Date])

\* C27: with the latest snapshot built from the tradebook, the trades dated at
\* or before its cutoff and the incremental trades dated after it partition
\* the tradebook, and a call of calculate_detailed_portfolio on the snapshot
\* path hands XIRR exactly one cash flow per trade of the tradebook.
C27_Partition == [][C27_Step]_vars

\* a call on the snapshot path has valued a tradebook that has a trade on the
\* cutoff day and a trade after it
C27_Witness ==
    /\ result.op = "detailed"
    /\ result.use_snapshot
    /\ result.summary_metrics.exists
    /\ SnapshotYears # {}
    /\ \E i \in DOMAIN ledger : ledger[i].Date = Cutoff(LatestYear)
    /\ \E i \in DOMAIN ledger : ledger[i].Date > Cutoff(LatestYear)
    /\ Len(result.cash_flows) = Len(ledger) + 1

-----------------------------------------------------------------------------
(* Tradebook Builder                                                       *)

\* df[df['Source_File'] == f]
WithSource(df, f) == SelectSeq(df, LAMBDA r : r.Source_File = f)

\* the rows the source file f holds now, as the tradebook stores them
CurrentRows(f) ==
    IF trade_files[f].exists
    THEN add_exchange_rates_to_trades(parse_trade_file(trade_files, f))
    ELSE <<>>

\* a step of "tradebook_builder.py consolidate"
ConsolidateStep == trade_files' = trade_files /\ result'.op = "consolidate"

\* the rows of every source file, of the deleted ones too, are in the
\* tradebook as one version of the file had them, each once
AtMostOnce ==
    \A f \in TradeFileNames :
        \E rows \in FileContents :
            SeqToBag([i \in DOMAIN WithSource(ledger, f) |->
                         [c \in DOMAIN SourceRow(0, "INFY", "BUY", 0, 0) |->
                             WithSource(ledger, f)[i][c]]])
                = SeqToBag(rows)

C29_Step ==
    ConsolidateStep =>
        \A f \in TradeFileNames :
            IF f \in Range(result'.new_files)
            THEN SeqToBag(WithSource(ledger', f)) = SeqToBag(CurrentRows(f))
            ELSE WithSource(ledger', f) = WithSource(ledger, f)

\* C29: a consolidate run leaves, for every new or modified source file it
\* selected, exactly the current rows of that file under its Source_File in
\* the tradebook, each once, and leaves the rows of every other source file,
\* deleted ones included, as they were.
C29_ReprocessReplaces == [][C29_Step]_vars

\* the source files that exist, in name order
SortedTradeFiles ==
    get_trade_files(trade_files',
                    CHOOSE o \in GlobOrders : \A i \in 1..(Len(o) - 1) : o[i] # "trades2.csv")

C30_Step ==
    \A f \in TradeFileNames :
        (/\ ConsolidateStep
         /\ f \in Range(result'.new_files)
         /\ trade_files[f].rows # <<>>
         /\ processed_files'[f] = get_file_modification_time_string(trade_files[f].mtime))
        => /\ f \notin Range(identify_new_or_modified_files(SortedTradeFiles, trade_files',
                                                            processed_files'))
           /\ FileStatus(trade_files', processed_files', f) = "Already processed"
           /\ \A glob_order \in GlobOrders :
                 load_or_create_tradebook(tradebook_exists', ledger',
                                          get_trade_files(trade_files', glob_order),
                                          trade_files', processed_files').df = ledger'

\* C30: right after a consolidate run has processed a source file and
\* recorded its modification time, the file is not selected as new or
\* modified, tradebook_status reports it as already processed, and a further
\* consolidate run leaves the tradebook as it is.
C30_OnlyNewOrModified == [][C30_Step]_vars

-----------------------------------------------------------------------------
(* Snapshot directory: the snapshot command, the rebuild and the readers   *)

\* the artifacts of year y are those the builder computes from the
\* tradebook df, and none where it computes none
StoredIsComputed(df, y, hfiles, cfiles) ==
    LET snap == generate_snapshot_for_year(df, y)
    IN  IF snap.exists
        THEN hfiles[y] = snap.holdings /\ cfiles[y] = snap.cashflows
        ELSE ~hfiles[y].exists /\ ~cfiles[y].exists

\* C21: when rebuild_all.py has completed, having run the snapshot
\* generator, every year has the position table and the cash-flow record the
\* builder computes from the rebuilt tradebook, or neither.
C21_RebuildRegeneratesAll ==
    rebuild.pc = "complete" =>
        \A y \in Years : StoredIsComputed(ledger, y, holdings_files, cashflows_files)

\* the tradebooks rebuild_all.py makes of the versions of the source file
Generations ==
    {load_or_create_tradebook(FALSE, <<>>, <<"trades1.csv">>,
                              [f \in TradeFileNames |->
                                  [exists |-> TRUE, mtime |-> MaxMtime, rows |-> rows]],
                              NoMetadata).df : rows \in FileContents}

C22_Step ==
    /\ (observed' # observed /\ observed'.op = "latest" /\ observed'.year # 0)
       => \E df \in Generations :
             LET snap == generate_snapshot_for_year(df, observed'.year)
             IN  /\ snap.exists
                 /\ observed'.snapshot_df = snap.holdings.rows
                 /\ observed'.cashflows.exists => observed'.cashflows = snap.cashflows
    /\ (result' # result /\ result'.op = "xirr_per_year")
       => \E df \in Generations :
             \A y \in Years :
                LET snap == generate_snapshot_for_year(df, y)
                IN  /\ holdings_files[y].exists
                       => snap.exists /\ holdings_files[y] = snap.holdings
                    /\ cashflows_files[y].exists
                       => snap.exists /\ cashflows_files[y] = snap.cashflows

\* C22: what get_latest_snapshot returns while rebuild_all.py runs is the
\* position table and the cash-flow record of one tradebook, and the
\* artifacts calculate_xirr_per_year reads are all of one tradebook.
C22_ReadersSeeOneGeneration == [][C22_Step]_vars

\* a step of "generate_snapshots.py single y"
SingleStep(y) ==
    /\ snapshot_file'.year = y
    /\ UNCHANGED <<ledger, tradebook_exists, trade_files, processed_files, result>>

C23_Step ==
    \A y \in Years :
        SingleStep(y) =>
            LET again == generate_snapshot_for_year(ledger', y)
            IN  /\ again.exists = snapshot_file'.returned
                /\ again.exists => /\ holdings_files'[y] = again.holdings
                                   /\ cashflows_files'[y] = again.cashflows

\* C23: after generate_snapshot_for_year has run for a year, whatever
\* artifacts there were before, a second run on the same tradebook returns
\* the same and writes the position table and the cash-flow log that are
\* there already.
C23_IdempotentRebuild == [][C23_Step]_vars

\* the snapshot of 2024 was written from the tradebook, beside a position
\* table of 2023 that an earlier tradebook left
C23_Witness ==
    /\ snapshot_file = [year |-> 2024, returned |-> TRUE]
    /\ generate_snapshot_for_year(ledger, 2024).exists
    /\ holdings_files[2024] = generate_snapshot_for_year(ledger, 2024).holdings
    /\ cashflows_files[2024] = generate_snapshot_for_year(ledger, 2024).cashflows
    /\ holdings_files[2023].exists
    /\ ~generate_snapshot_for_year(ledger, 2023).exists

C24_Step ==
    \A y \in Years :
        (SingleStep(y) /\ FilterUpTo(ledger, y) # <<>>)
        => /\ StoredIsComputed(ledger, y, holdings_files', cashflows_files')
           /\ \A z \in Years \ {y} : /\ holdings_files'[z] = holdings_files[z]
                                     /\ cashflows_files'[z] = cashflows_files[z]

\* C24: when the tradebook has a trade at or before the cutoff of year y,
\* generate_snapshot_for_year(df, y) leaves for y the artifacts computed
\* from df and none of an earlier tradebook, and leaves the artifacts of the
\* other years as they were.
C24_SnapshotOverwrites == [][C24_Step]_vars

-----------------------------------------------------------------------------
(* Price lookup                                                            *)

\* the step on which calculate_detailed_portfolio computes its metrics
MetricsStep == fetch.pc = "fetching" /\ fetch'.pc = "returned"

C26_Step ==
    MetricsStep =>
        /\ DOMAIN fetch.market_data = Range(fetch.currently_held_tickers)
        /\ DOMAIN fetch.answers = Range(fetch.currently_held_tickers)
        /\ \A t \in Range(fetch.currently_held_tickers) :
              fetch.market_data[t] =
                  IF fetch.answers[t] = "price" THEN [available |-> TRUE, price |-> 2]
                  ELSE IF t \in DOMAIN temp_prices
                  THEN [available |-> TRUE, price |-> temp_prices[t]]
                  ELSE [available |-> FALSE, price |-> 0]
        /\ result'.op = "detailed"
        /\ result'.outcome = "returned"
        /\ DOMAIN result'.market_data =
               {t \in Range(fetch.currently_held_tickers) : fetch.market_data[t].available}
        /\ \A t \in DOMAIN result'.market_data :
               result'.market_data[t] = fetch.market_data[t].price
        /\ RowTickers(result'.portfolio_rows) = Range(fetch.currently_held_tickers)

====
